---------------------------- MODULE Spec2Model ----------------------------
(***************************************************************************)
(* Model of the pricing core of SmartPrice (backend/tools.py) and of the   *)
(* direct tool execution of the orchestrator (backend/main.py).            *)
(*                                                                         *)
(* Text is a sequence of one-character strings; the rupee sign is the      *)
(* token "RUPEE".  Money is an integer number of 1/10000 rupee (Scale), so *)
(* that a price with two decimals times a whole percentage is exact.       *)
(* Python floats are modelled by these exact values.                       *)
(***************************************************************************)
EXTENDS Integers, Sequences, FiniteSets, TLC

(***************************************************************************)
(* Bounds of the model.                                                    *)
(***************************************************************************)
MaxOffers == 3
MaxCards == 2
MaxTime == 2
MaxText == 4
MaxRequests == 2

Scale == 10000

None == "None"

\* None where a dict is expected, and the text of a missing key
NoDict == [is_none |-> TRUE]
NoText == <<"MISSING">>

IsNone(d) == "is_none" \in DOMAIN d

(***************************************************************************)
(* Text helpers: str.lower, the `in` operator on strings, str.index.       *)
(***************************************************************************)
Digits == {"0", "1", "2", "3", "4", "5", "6", "7", "8", "9"}

DigitVal(c) ==
    CASE c = "0" -> 0 [] c = "1" -> 1 [] c = "2" -> 2 [] c = "3" -> 3
      [] c = "4" -> 4 [] c = "5" -> 5 [] c = "6" -> 6 [] c = "7" -> 7
      [] c = "8" -> 8 [] c = "9" -> 9

LowerChar(c) ==
    CASE c = "A" -> "a" [] c = "B" -> "b" [] c = "C" -> "c" [] c = "D" -> "d"
      [] c = "E" -> "e" [] c = "F" -> "f" [] c = "G" -> "g" [] c = "H" -> "h"
      [] c = "I" -> "i" [] c = "J" -> "j" [] c = "K" -> "k" [] c = "L" -> "l"
      [] c = "M" -> "m" [] c = "N" -> "n" [] c = "O" -> "o" [] c = "P" -> "p"
      [] c = "Q" -> "q" [] c = "R" -> "r" [] c = "S" -> "s" [] c = "T" -> "t"
      [] c = "U" -> "u" [] c = "V" -> "v" [] c = "W" -> "w" [] c = "X" -> "x"
      [] c = "Y" -> "y" [] c = "Z" -> "z"
      [] OTHER -> c

Lower(t) == [i \in 1..Len(t) |-> LowerChar(t[i])]

\* k in t (Python substring test)
Contains(t, k) ==
    \E i \in 1..(Len(t) - Len(k) + 1) : SubSeq(t, i, i + Len(k) - 1) = k

\* the character of t at position i, or "" past the end
At(t, i) == IF i >= 1 /\ i <= Len(t) THEN t[i] ELSE ""

(***************************************************************************)
(* extract_price_from_text: the four regular expressions.                  *)
(***************************************************************************)
RECURSIVE DigitRun(_, _)
\* last index of the run of digits that starts at i (i-1 when there is none)
DigitRun(t, i) ==
    IF At(t, i) \in Digits THEN DigitRun(t, i + 1) ELSE i - 1

RECURSIVE CommaGroups(_, _)
\* (?:,\d+)* greedily, from the end j of what was matched so far
CommaGroups(t, j) ==
    IF At(t, j + 1) = "," /\ At(t, j + 2) \in Digits
    THEN CommaGroups(t, DigitRun(t, j + 2))
    ELSE j

\* (?:\.\d+)? greedily
FractionEnd(t, j) ==
    IF At(t, j + 1) = "." /\ At(t, j + 2) \in Digits
    THEN DigitRun(t, j + 2)
    ELSE j

\* end of the match of \d+(?:,\d+)*(?:\.\d+)? starting at the digit at i
NumEnd(t, i) == FractionEnd(t, CommaGroups(t, DigitRun(t, i)))

RECURSIVE SkipSpaces(_, _)
\* \s*: the first index >= i that holds no white space
SkipSpaces(t, i) == IF At(t, i) = " " THEN SkipSpaces(t, i + 1) ELSE i

NoMatch == [ok |-> FALSE, from |-> 0, to |-> 0]

\* the group (\d+...) if it starts at index s
NumberFrom(t, s) ==
    IF At(t, s) \in Digits
    THEN [ok |-> TRUE, from |-> s, to |-> NumEnd(t, s)]
    ELSE NoMatch

\* the group captured after a currency marker that ends just before index j
NumberAfter(t, j) == NumberFrom(t, SkipSpaces(t, j))

\* mutant: the last pattern takes a number without a currency marker
Mut_MatchAt(p, t, i) ==
    CASE p = 1 -> IF At(t, i) = "RUPEE" THEN NumberAfter(t, i + 1) ELSE NoMatch
      [] p = 2 -> IF At(t, i) = "R" /\ At(t, i + 1) = "s"
                  THEN NumberAfter(t, IF At(t, i + 2) = "." THEN i + 3 ELSE i + 2)
                  ELSE NoMatch
      [] p = 3 -> IF At(t, i) = "I" /\ At(t, i + 1) = "N" /\ At(t, i + 2) = "R"
                  THEN NumberAfter(t, i + 3)
                  ELSE NoMatch
      [] p = 4 -> IF At(t, i) \in Digits
                  THEN [ok |-> TRUE, from |-> i, to |-> NumEnd(t, i)]
                  ELSE NoMatch

\* the match of price_patterns[p] that starts at index i
MatchAt(p, t, i) ==
    CASE p = 1 -> IF At(t, i) = "RUPEE" THEN NumberAfter(t, i + 1) ELSE NoMatch
      [] p = 2 -> IF At(t, i) = "R" /\ At(t, i + 1) = "s"
                  THEN NumberAfter(t, IF At(t, i + 2) = "." THEN i + 3 ELSE i + 2)
                  ELSE NoMatch
      [] p = 3 -> IF At(t, i) = "I" /\ At(t, i + 1) = "N" /\ At(t, i + 2) = "R"
                  THEN NumberAfter(t, i + 3)
                  ELSE NoMatch
      [] p = 4 -> IF At(t, i) \in Digits
                     /\ At(t, SkipSpaces(t, NumEnd(t, i) + 1)) = "RUPEE"
                  THEN [ok |-> TRUE, from |-> i, to |-> NumEnd(t, i)]
                  ELSE NoMatch

\* the match at the least of the indices starts
LeftmostMatch(p, t, starts) ==
    IF starts = {} THEN NoMatch
    ELSE MatchAt(p, t, CHOOSE i \in starts : \A j \in starts : i <= j)

\* re.findall(pattern, text)[0]: the leftmost match of the pattern
FirstMatch(p, t) ==
    LeftmostMatch(p, t, {i \in 1..Len(t) : MatchAt(p, t, i).ok})

RECURSIVE IntOf(_)
\* value of a run of digits and commas, the commas dropped
IntOf(s) ==
    IF s = <<>> THEN 0
    ELSE LET c == s[Len(s)]
             r == IntOf(SubSeq(s, 1, Len(s) - 1))
         IN  IF c = "," THEN r ELSE 10 * r + DigitVal(c)

RECURSIVE FracOf(_, _)
\* value, in units of 1/Scale, of the decimals s, the first of weight w
FracOf(s, w) ==
    IF s = <<>> \/ w = 0 THEN 0
    ELSE DigitVal(s[1]) * w + FracOf(Tail(s), w \div 10)

\* float(matches[0].replace(',', ''))
FloatOf(s) ==
    LET dots == {i \in 1..Len(s) : s[i] = "."}
    IN  IF dots = {} THEN IntOf(s) * Scale
        ELSE LET d == CHOOSE i \in dots : TRUE
             IN  IntOf(SubSeq(s, 1, d - 1)) * Scale
                   + FracOf(SubSeq(s, d + 1, Len(s)), Scale \div 10)

RECURSIVE TryPatterns(_, _)
\* the body of `for pattern in price_patterns` for the match m of pattern p
PatternValue(t, p, m) ==
    IF m.ok THEN FloatOf(SubSeq(t, m.from, m.to)) ELSE TryPatterns(t, p + 1)

\* the loop `for pattern in price_patterns` from pattern p on
TryPatterns(t, p) ==
    IF p > 4 THEN 0 ELSE PatternValue(t, p, FirstMatch(p, t))

extract_price_from_text(text) ==
    IF text = <<>> THEN 0 ELSE TryPatterns(text, 1)

(***************************************************************************)
(* The credit card benefits table; rates are whole percentages.            *)
(***************************************************************************)
CREDIT_CARD_BENEFITS ==
    [c \in {"HDFC Bank Millennia", "SBI SimplyCLICK", "SBI SimplySAVE",
            "Amazon Pay ICICI", "Flipkart Axis Bank"} |->
       CASE c = "HDFC Bank Millennia" ->
              [cashback_rate |-> 5, annual_fee |-> "1,000",
               benefits |-> "5% cashback on Amazon, Flipkart, Myntra, Zomato, Swiggy",
               grocery_rate |-> 1, online_rate |-> 5]
         [] c = "SBI SimplyCLICK" ->
              [cashback_rate |-> 10, annual_fee |-> "499",
               benefits |-> "10X points on online shopping partners",
               grocery_rate |-> 1, online_rate |-> 10]
         [] c = "SBI SimplySAVE" ->
              [cashback_rate |-> 10, annual_fee |-> "499",
               benefits |-> "10X points on dining, movies, grocery stores",
               grocery_rate |-> 10, online_rate |-> 1]
         [] c = "Amazon Pay ICICI" ->
              [cashback_rate |-> 5, annual_fee |-> "Nil",
               benefits |-> "5% cashback on Amazon, 2% on other merchants",
               grocery_rate |-> 1, online_rate |-> 5]
         [] c = "Flipkart Axis Bank" ->
              [cashback_rate |-> 5, annual_fee |-> "500",
               benefits |-> "5% cashback on Flipkart, 4% on partner merchants",
               grocery_rate |-> 1, online_rate |-> 5]]

\* dict.get(key, default) on a record
Get(d, key, default) == IF key \in DOMAIN d THEN d[key] ELSE default

\* price * rate for a rate of pct percent, without overflow
Percent(price, pct) ==
    (price \div 100) * pct + ((price % 100) * pct) \div 100

\* mutant: every category gets the grocery rate
Mut_CategoryRate(card_info, category) ==
    Get(card_info, "grocery_rate", 1)

CategoryRate(card_info, category) ==
    IF category = "grocery" THEN Get(card_info, "grocery_rate", 1)
    ELSE IF category = "online" THEN Get(card_info, "online_rate", 1)
    ELSE Get(card_info, "cashback_rate", 1)

\* mutant: an unknown card is looked up like an entry without any rate
Mut_calculate_credit_card_benefits(price, card_name, category) ==
    LET card_info == IF card_name \in DOMAIN CREDIT_CARD_BENEFITS
                     THEN CREDIT_CARD_BENEFITS[card_name]
                     ELSE [benefits |-> "No card benefits available"]
        cashback_rate == CategoryRate(card_info, category)
    IN  [cashback_earned |-> Percent(price, cashback_rate),
         effective_cashback_rate |-> cashback_rate,
         benefits_description |-> Get(card_info, "benefits", ""),
         annual_fee |-> Get(card_info, "annual_fee", "N/A")]

calculate_credit_card_benefits(price, card_name, category) ==
    IF card_name \notin DOMAIN CREDIT_CARD_BENEFITS
    THEN [cashback_earned |-> 0,
          effective_cashback_rate |-> 0,
          benefits_description |-> "No card benefits available"]
    ELSE LET card_info == CREDIT_CARD_BENEFITS[card_name]
             cashback_rate == CategoryRate(card_info, category)
         IN  [cashback_earned |-> Percent(price, cashback_rate),
              effective_cashback_rate |-> cashback_rate,
              benefits_description |-> Get(card_info, "benefits", ""),
              annual_fee |-> Get(card_info, "annual_fee", "N/A")]

(***************************************************************************)
(* analyze_product_prices_tool.  A value used more than once is passed to  *)
(* an operator as a parameter.                                             *)
(***************************************************************************)
\* mutant: a later card with an equal cashback replaces the best card
Mut_BetterCard(st, card, benefits) ==
    IF benefits.cashback_earned >= st.best_cashback
    THEN [best_card |-> card, best_benefits |-> benefits,
          best_cashback |-> benefits.cashback_earned]
    ELSE st

\* `if benefits['cashback_earned'] > best_cashback: ...`; st holds best_card,
\* best_benefits and best_cashback
BetterCard(st, card, benefits) ==
    IF benefits.cashback_earned > st.best_cashback
    THEN [best_card |-> card, best_benefits |-> benefits,
          best_cashback |-> benefits.cashback_earned]
    ELSE st

RECURSIVE BestCardLoop(_, _, _, _)
\* the loop `for card in user_credit_cards` from card i on
BestCardLoop(user_credit_cards, i, original_price, st) ==
    IF i > Len(user_credit_cards) THEN st
    ELSE BestCardLoop(user_credit_cards, i + 1, original_price,
             BetterCard(st, user_credit_cards[i],
                 calculate_credit_card_benefits(original_price, user_credit_cards[i],
                                                "online")))

\* `if not best_benefits: best_benefits = calculate_credit_card_benefits(...)`
DefaultBenefits(original_price, st) ==
    [best_card |-> st.best_card,
     best_benefits |->
         IF IsNone(st.best_benefits)
         THEN calculate_credit_card_benefits(original_price, st.best_card, "online")
         ELSE st.best_benefits]

\* best_card and best_benefits of one offer
BestCard(user_credit_cards, original_price) ==
    DefaultBenefits(original_price,
        BestCardLoop(user_credit_cards, 1, original_price,
            [best_card |-> IF user_credit_cards # <<>> THEN user_credit_cards[1]
                           ELSE "No Card",
             best_benefits |-> NoDict,
             best_cashback |-> 0]))

ListingInfo(product) ==
    IF "listing_info" \in DOMAIN product THEN product.listing_info ELSE product

RupeeZero == <<"RUPEE", "0">>

\* mutant: only negative prices are left out
Mut_Excluded(original_price) == original_price < 0

\* `if original_price <= 0: continue`
Excluded(original_price) == original_price <= 0

\* the analyzed product (without savings_percentage and the constant
\* fields), or "raise" for the KeyError of best_benefits['annual_fee']
AnalyzedProduct(listing_info, original_price, best_card, best_benefits) ==
    IF "annual_fee" \notin DOMAIN best_benefits
    THEN [kind |-> "raise", error |-> "KeyError: 'annual_fee'"]
    ELSE [kind |-> "product",
          product |->
            [product_title |-> Get(listing_info, "title", "Unknown Product"),
             product_url |-> Get(listing_info, "url", ""),
             platform |-> Get(listing_info, "platform", "Unknown"),
             original_price |-> original_price,
             platform_discount |-> 0,
             credit_card_discount |-> best_benefits.cashback_earned,
             total_discount |-> best_benefits.cashback_earned,
             effective_price |-> original_price - best_benefits.cashback_earned,
             recommended_card |-> best_card,
             card_benefit_description |-> best_benefits.benefits_description,
             credit_card_benefits |->
                [cashback_earned |-> best_benefits.cashback_earned,
                 effective_cashback_rate |-> best_benefits.effective_cashback_rate,
                 annual_fee |-> best_benefits.annual_fee,
                 total_value_benefit |-> best_benefits.cashback_earned]]]

AnalyzeWithBest(listing_info, original_price, best) ==
    AnalyzedProduct(listing_info, original_price, best.best_card, best.best_benefits)

AnalyzePriced(listing_info, original_price, user_credit_cards) ==
    IF Excluded(original_price) THEN [kind |-> "skip"]
    ELSE AnalyzeWithBest(listing_info, original_price,
                         BestCard(user_credit_cards, original_price))

AnalyzeListing(listing_info, user_credit_cards) ==
    AnalyzePriced(listing_info,
                  extract_price_from_text(Get(listing_info, "price_str", RupeeZero)),
                  user_credit_cards)

\* one pass of the loop body: "skip" (continue), "raise" or the analyzed
\* product
AnalyzeProduct(product, user_credit_cards) ==
    AnalyzeListing(ListingInfo(product), user_credit_cards)

RECURSIVE AnalyzeLoop(_, _, _, _)
\* the rest of the loop after the pass r for product i
AnalyzeNext(products, i, user_credit_cards, analyzed_products, r) ==
    IF r.kind = "raise" THEN [raised |-> TRUE, error |-> r.error]
    ELSE AnalyzeLoop(products, i + 1, user_credit_cards,
             IF r.kind = "skip" THEN analyzed_products
             ELSE Append(analyzed_products, r.product))

\* the loop `for product in products` from product i on
AnalyzeLoop(products, i, user_credit_cards, analyzed_products) ==
    IF i > Len(products) THEN [raised |-> FALSE, analyzed_products |-> analyzed_products]
    ELSE AnalyzeNext(products, i, user_credit_cards, analyzed_products,
                     AnalyzeProduct(products[i], user_credit_cards))

\* x put at position n + 1 of s
InsertAfter(s, n, x) == SubSeq(s, 1, n) \o <<x>> \o SubSeq(s, n + 1, Len(s))

\* mutant: x is put before the elements of equal key
Mut_InsertByKey(s, x) ==
    InsertAfter(s, Cardinality({i \in 1..Len(s) :
                                  s[i].effective_price < x.effective_price}), x)

\* x put behind every element of the sorted list s whose key is not larger
InsertByKey(s, x) ==
    InsertAfter(s, Cardinality({i \in 1..Len(s) :
                                  s[i].effective_price <= x.effective_price}), x)

RECURSIVE SortByEffectivePrice(_)
\* list.sort(key=lambda x: x['effective_price']), a stable sort
SortByEffectivePrice(s) ==
    IF s = <<>> THEN <<>>
    ELSE InsertByKey(SortByEffectivePrice(SubSeq(s, 1, Len(s) - 1)), s[Len(s)])

ProductToolCalled(products) ==
    [level |-> "info", event |-> "Price analysis tool called", count |-> Len(products)]

ProductToolSuccess(products, user_credit_cards, analyzed_products) ==
    [ret |-> [analyzed_products |-> analyzed_products,
              total_products |-> Len(analyzed_products),
              user_credit_cards |-> user_credit_cards],
     log |-> <<ProductToolCalled(products)>>]

\* the return statement, or the except branch, after the loop result r
ProductToolResult(products, user_credit_cards, r) ==
    IF r.raised
    THEN [ret |-> [analyzed_products |-> <<>>,
                   total_products |-> 0,
                   error |-> r.error],
          log |-> <<ProductToolCalled(products),
                    [level |-> "error", event |-> "Price analysis tool error"]>>]
    ELSE ProductToolSuccess(products, user_credit_cards,
                            SortByEffectivePrice(r.analyzed_products))

\* the value returned and the log records written
analyze_product_prices_tool(products, user_credit_cards) ==
    ProductToolResult(products, user_credit_cards,
                      AnalyzeLoop(products, 1, user_credit_cards, <<>>))

(***************************************************************************)
(* analyze_grocery_prices_tool.  The catalogue MOCK_GROCERY is data of the *)
(* module; the operators take it as the parameter catalogue.               *)
(***************************************************************************)
MOCK_GROCERY_SHIPPED ==
    [blinkit |->
     <<
       [product_title |->
          <<"A", "m", "u", "l", " ", "T", "a", "a", "z", "a", " ", "T", "o", "n", "e", "d", " ", "M", "i", "l", "k", " ", "1", "L">>,
        price |-> <<"RUPEE", "5", "7">>, weight |-> "1L", platform |-> "blinkit"],
       [product_title |->
          <<"H", "a", "r", "v", "e", "s", "t", " ", "G", "o", "l", "d", " ", "W", "h", "i", "t", "e", " ", "B", "r", "e", "a", "d", " ", "3", "5", "0", "g">>,
        price |-> <<"RUPEE", "3", "0">>, weight |-> "350g", platform |-> "blinkit"],
       [product_title |->
          <<"M", "o", "t", "h", "e", "r", " ", "D", "a", "i", "r", "y", " ", "T", "o", "n", "e", "d", " ", "M", "i", "l", "k", " ", "5", "0", "0", "m", "l">>,
        price |-> <<"RUPEE", "2", "9">>, weight |-> "500ml", platform |-> "blinkit"],
       [product_title |->
          <<"B", "r", "i", "t", "a", "n", "n", "i", "a", " ", "B", "r", "o", "w", "n", " ", "B", "r", "e", "a", "d", " ", "3", "5", "0", "g">>,
        price |-> <<"RUPEE", "3", "5">>, weight |-> "350g", platform |-> "blinkit"]>>,
     zepto |->
     <<
       [product_title |->
          <<"A", "m", "u", "l", " ", "G", "o", "l", "d", " ", "F", "u", "l", "l", " ", "C", "r", "e", "a", "m", " ", "M", "i", "l", "k", " ", "1", "L">>,
        price |-> <<"RUPEE", "6", "9">>, weight |-> "1L", platform |-> "zepto"],
       [product_title |->
          <<"M", "o", "d", "e", "r", "n", " ", "W", "h", "i", "t", "e", " ", "B", "r", "e", "a", "d", " ", "4", "0", "0", "g">>,
        price |-> <<"RUPEE", "2", "8">>, weight |-> "400g", platform |-> "zepto"],
       [product_title |->
          <<"C", "o", "u", "n", "t", "r", "y", " ", "D", "e", "l", "i", "g", "h", "t", " ", "C", "o", "w", " ", "M", "i", "l", "k", " ", "5", "0", "0", "m", "l">>,
        price |-> <<"RUPEE", "3", "5">>, weight |-> "500ml", platform |-> "zepto"]>>]

KwMilk == <<"m", "i", "l", "k">>
KwBread == <<"b", "r", "e", "a", "d">>

\* items_found, from the lower-cased query
ItemsFound(query_lower) ==
    LET found == (IF Contains(query_lower, KwMilk) THEN <<"milk">> ELSE <<>>)
                   \o (IF Contains(query_lower, KwBread) THEN <<"bread">> ELSE <<>>)
    IN  IF found = <<>> THEN <<"general groceries">> ELSE found

\* [p for p in products if kw in p['product_title'].lower()]
TitleFilter(products, kw) ==
    LET Has(p) == Contains(Lower(p.product_title), kw)
    IN  SelectSeq(products, Has)

\* products[:n]
Prefix(products, n) ==
    SubSeq(products, 1, IF Len(products) < n THEN Len(products) ELSE n)

\* all_item_products: blinkit_products + zepto_products
ItemProducts(item, catalogue) ==
    IF item = "milk"
    THEN TitleFilter(catalogue.blinkit, KwMilk) \o TitleFilter(catalogue.zepto, KwMilk)
    ELSE IF item = "bread"
    THEN TitleFilter(catalogue.blinkit, KwBread) \o TitleFilter(catalogue.zepto, KwBread)
    ELSE Prefix(catalogue.blinkit, 2) \o Prefix(catalogue.zepto, 2)

\* str.title() of a platform name
TitleCase(platform) ==
    CASE platform = "blinkit" -> "Blinkit"
      [] platform = "zepto" -> "Zepto"
      [] OTHER -> platform

\* mutant: the discount is added to the price
Mut_GroceryAnalyzed(product, price, best_card, credit_card_discount) ==
    [product_title |-> product.product_title,
     original_price |-> price,
     effective_price |-> price + credit_card_discount,
     credit_card_discount |-> credit_card_discount,
     platform |-> TitleCase(product.platform),
     recommended_card |-> best_card,
     grocery_analysis |->
        [unit_price |-> price,
         effective_price_per_unit |-> price + credit_card_discount,
         unit_measure |-> "per_piece",
         weight_info |-> Get(product, "weight", "1 unit")]]

\* analyzed_product
GroceryAnalyzed(product, price, best_card, credit_card_discount) ==
    [product_title |-> product.product_title,
     original_price |-> price,
     effective_price |-> price - credit_card_discount,
     credit_card_discount |-> credit_card_discount,
     platform |-> TitleCase(product.platform),
     recommended_card |-> best_card,
     grocery_analysis |->
        [unit_price |-> price,
         effective_price_per_unit |-> price - credit_card_discount,
         unit_measure |-> "per_piece",
         weight_info |-> Get(product, "weight", "1 unit")]]

GroceryPriced(product, price, best_card) ==
    GroceryAnalyzed(product, price, best_card,
        calculate_credit_card_benefits(price, best_card, "grocery").cashback_earned)

\* the body of `for product in all_item_products`
GroceryOption(product, user_credit_cards) ==
    GroceryPriced(product, extract_price_from_text(product.price),
                  IF user_credit_cards # <<>> THEN user_credit_cards[1] ELSE "No Card")

ProductOptions(all_item_products, user_credit_cards) ==
    [k \in 1..Len(all_item_products) |->
        GroceryOption(all_item_products[k], user_credit_cards)]

\* mutant: the price paid is recorded as the saving
Mut_CartItem(best_option) ==
    [product_name |-> best_option.product_title,
     platform |-> best_option.platform,
     quantity |-> 1,
     total_quantity_price |-> best_option.effective_price,
     savings |-> best_option.effective_price,
     card_used |-> best_option.recommended_card]

\* cart_item
CartItem(best_option) ==
    [product_name |-> best_option.product_title,
     platform |-> best_option.platform,
     quantity |-> 1,
     total_quantity_price |-> best_option.effective_price,
     savings |-> best_option.credit_card_discount,
     card_used |-> best_option.recommended_card]

\* mutant: the cart item is put in front of the cart
Mut_AddSortedItem(acc, item, options, sorted) ==
    [products |-> acc.products \o options,
     grocery_items |->
        Append(acc.grocery_items,
               [name |-> item, requested_quantity |-> "1 unit", unit |-> "pieces",
                category |-> "general", product_options |-> sorted]),
     cart |-> IF sorted # <<>> THEN <<CartItem(sorted[1])>> \o acc.cart ELSE acc.cart,
     total_savings |->
        IF sorted # <<>> THEN acc.total_savings + sorted[1].credit_card_discount
        ELSE acc.total_savings]

\* the state of the loop after the item with the analyzed options, sorted the
\* options sorted by effective price
AddSortedItem(acc, item, options, sorted) ==
    [products |-> acc.products \o options,
     grocery_items |->
        Append(acc.grocery_items,
               [name |-> item, requested_quantity |-> "1 unit", unit |-> "pieces",
                category |-> "general", product_options |-> sorted]),
     cart |-> IF sorted # <<>> THEN Append(acc.cart, CartItem(sorted[1])) ELSE acc.cart,
     total_savings |->
        IF sorted # <<>> THEN acc.total_savings + sorted[1].credit_card_discount
        ELSE acc.total_savings]

\* mutant: the options are left in input order
Mut_AddItem(acc, item, options) ==
    AddSortedItem(acc, item, options, options)

AddItem(acc, item, options) ==
    AddSortedItem(acc, item, options, SortByEffectivePrice(options))

\* one pass of `for item in items_found`; an item without products is skipped
GroceryItem(acc, item, all_item_products, user_credit_cards) ==
    IF all_item_products = <<>> THEN acc
    ELSE AddItem(acc, item, ProductOptions(all_item_products, user_credit_cards))

RECURSIVE GroceryLoop(_, _, _, _, _)
\* the loop `for item in items_found` from item i on
GroceryLoop(items_found, i, user_credit_cards, catalogue, acc) ==
    IF i > Len(items_found) THEN acc
    ELSE GroceryLoop(items_found, i + 1, user_credit_cards, catalogue,
             GroceryItem(acc, items_found[i], ItemProducts(items_found[i], catalogue),
                         user_credit_cards))

GroceryResult(acc) ==
    [ret |-> [products |-> acc.products,
              grocery_items |-> acc.grocery_items,
              cart |-> acc.cart,
              total_savings |-> acc.total_savings,
              analysis_type |-> "grocery",
              status |-> "success"],
     log |-> <<[level |-> "info", event |-> "Grocery analysis tool called"]>>]

\* the value returned and the log records written
analyze_grocery_prices_tool(grocery_query, user_credit_cards, catalogue) ==
    GroceryResult(
        GroceryLoop(ItemsFound(Lower(grocery_query)), 1, user_credit_cards, catalogue,
                    [products |-> <<>>, grocery_items |-> <<>>, cart |-> <<>>,
                     total_savings |-> 0]))

(***************************************************************************)
(* The mock data of the scraping tools, scrape_products_tool,              *)
(* scrape_flights_tool and OrchestratorAgent._execute_direct_tools.        *)
(***************************************************************************)
MOCK_PRODUCTS ==
    [iphone |->
       <<[title |-> "Apple iPhone 15 (128 GB) - Black",
          price_str |-> <<"RUPEE", "6", "1", ",", "4", "9", "9">>, platform |-> "Amazon"],
         [title |-> "Apple iPhone 15 (128 GB) - Pink",
          price_str |-> <<"RUPEE", "5", "9", ",", "9", "0", "0">>, platform |-> "Flipkart"],
         [title |-> "Apple iPhone 15 (128 GB) - Blue",
          price_str |-> <<"RUPEE", "6", "1", ",", "4", "9", "9">>, platform |-> "Amazon"]>>,
     laptop |->
       <<[title |-> "Dell Inspiron 15 3000 Laptop",
          price_str |-> <<"RUPEE", "4", "5", ",", "9", "9", "0">>, platform |-> "Amazon"],
         [title |-> "HP Pavilion Gaming Laptop",
          price_str |-> <<"RUPEE", "5", "2", ",", "9", "9", "9">>, platform |-> "Flipkart"],
         [title |-> "Lenovo IdeaPad 3 Laptop",
          price_str |-> <<"RUPEE", "4", "8", ",", "5", "0", "0">>, platform |-> "Amazon"]>>,
     samsung |->
       <<[title |-> "Samsung Galaxy S24 (128GB) - Black",
          price_str |-> <<"RUPEE", "7", "4", ",", "9", "9", "9">>, platform |-> "Amazon"],
         [title |-> "Samsung Galaxy S24 (256GB) - Violet",
          price_str |-> <<"RUPEE", "7", "9", ",", "9", "9", "9">>, platform |-> "Flipkart"]>>,
     generic |->
       <<[title |-> "Best Smartphone 2024",
          price_str |-> <<"RUPEE", "2", "5", ",", "9", "9", "9">>, platform |-> "Amazon"]>>]

MOCK_FLIGHTS ==
    <<[airline |-> "IndiGo", price_str |-> <<"RUPEE", "4", ",", "2", "4", "5">>,
       platform |-> "Google Flights"],
      [airline |-> "SpiceJet", price_str |-> <<"RUPEE", "3", ",", "8", "9", "9">>,
       platform |-> "MakeMyTrip"],
      [airline |-> "Air India", price_str |-> <<"RUPEE", "5", ",", "1", "5", "0">>,
       platform |-> "Google Flights"],
      [airline |-> "Vistara", price_str |-> <<"RUPEE", "6", ",", "2", "0", "0">>,
       platform |-> "MakeMyTrip"]>>

IphoneKeywords ==
    {<<"i", "p", "h", "o", "n", "e">>,
     <<"1", "5">>,
     <<"a", "p", "p", "l", "e">>}
LaptopKeywords ==
    {<<"l", "a", "p", "t", "o", "p">>,
     <<"c", "o", "m", "p", "u", "t", "e", "r">>,
     <<"d", "e", "l", "l">>,
     <<"h", "p">>,
     <<"l", "e", "n", "o", "v", "o">>}
SamsungKeywords ==
    {<<"s", "a", "m", "s", "u", "n", "g">>,
     <<"g", "a", "l", "a", "x", "y">>,
     <<"s", "2", "4">>}
PhoneKeywords ==
    {<<"p", "h", "o", "n", "e">>,
     <<"s", "m", "a", "r", "t", "p", "h", "o", "n", "e">>,
     <<"m", "o", "b", "i", "l", "e">>}

\* any(keyword in query_lower for keyword in keywords)
AnyIn(keywords, query_lower) == \E k \in keywords : Contains(query_lower, k)

\* get_mock_data_for_query(query, 'products') for the lower-cased query
MockProducts(query_lower) ==
    IF AnyIn(IphoneKeywords, query_lower) THEN MOCK_PRODUCTS.iphone
    ELSE IF AnyIn(LaptopKeywords, query_lower) THEN MOCK_PRODUCTS.laptop
    ELSE IF AnyIn(SamsungKeywords, query_lower) THEN MOCK_PRODUCTS.samsung
    ELSE IF AnyIn(PhoneKeywords, query_lower)
    THEN Prefix(MOCK_PRODUCTS.iphone, 1) \o Prefix(MOCK_PRODUCTS.samsung, 1)
    ELSE MOCK_PRODUCTS.generic

\* the data types 'products' and 'flights'
get_mock_data_for_query(query, data_type) ==
    IF data_type = "products" THEN MockProducts(Lower(query))
    ELSE IF data_type = "flights" THEN MOCK_FLIGHTS
    ELSE <<>>

\* the products as scrape_products_tool returns them
WrappedProducts(listings) ==
    [k \in 1..Len(listings) |->
        [listing_info |-> listings[k],
         detailed_info |-> [offer_details |-> listings[k].title]]]

\* the flights as scrape_flights_tool returns them
WrappedFlights(listings, departure_airport, arrival_airport) ==
    [k \in 1..Len(listings) |->
        [listing_info |-> listings[k],
         detailed_info |-> [flight_details |-> <<departure_airport, arrival_airport>>]]]

scrape_products_tool(query, max_products) ==
    [products |-> WrappedProducts(Prefix(get_mock_data_for_query(query, "products"),
                                         max_products)),
     log |-> <<[level |-> "info", event |-> "Product scraping tool called"]>>]

scrape_flights_tool(departure_airport, arrival_airport, max_flights) ==
    [flights |-> WrappedFlights(Prefix(get_mock_data_for_query(<<>>, "flights"),
                                       max_flights),
                                departure_airport, arrival_airport),
     log |-> <<[level |-> "info", event |-> "Flight scraping tool called"]>>]

\* the empty dict
EmptyDict == [k \in {} |-> None]

\* the truth value of an Optional[str]
Truthy(text) == text # None /\ text # ""

\* analyzed_products and the log of the `if products and credit_card` branch
\* after the analysis r
AnalysisOf(products, r) ==
    [analyzed_products |-> Get(r.ret, "analyzed_products", products), log |-> r.log]

DirectAnalysis(products, credit_card) ==
    IF products # <<>> /\ Truthy(credit_card)
    THEN AnalysisOf(products, analyze_product_prices_tool(products, <<credit_card>>))
    ELSE [analyzed_products |-> products, log |-> <<>>]

DirectProductResult(product_name, scrape_log, a) ==
    [ret |-> [summary |-> [text |-> "I found products", count |-> Len(a.analyzed_products),
                           product_name |-> product_name],
              products |-> Prefix(a.analyzed_products, 5),
              best_deal |-> IF a.analyzed_products # <<>> THEN a.analyzed_products[1]
                            ELSE NoDict,
              total_products |-> Len(a.analyzed_products),
              next_steps |-> <<"Compare detailed specifications",
                               "Check delivery options", "Proceed to purchase">>],
     log |-> scrape_log \o a.log]

DirectProductScraped(product_name, credit_card, scrape_result) ==
    DirectProductResult(product_name, scrape_result.log,
                        DirectAnalysis(scrape_result.products, credit_card))

\* the branch `if domain == 'product'`
DirectProduct(product_name, credit_card) ==
    DirectProductScraped(product_name, credit_card,
                         scrape_products_tool(product_name, 5))

DirectGroceryResult(grocery_result) ==
    [ret |-> [summary |-> [text |-> "I found grocery options"],
              grocery_items |-> Get(grocery_result.ret, "grocery_items", <<>>),
              cart |-> Get(grocery_result.ret, "cart", <<>>),
              total_savings |-> Get(grocery_result.ret, "total_savings", 0),
              platform_recommendation |-> "Blinkit",
              next_steps |-> <<"Review cart items", "Confirm delivery address",
                               "Proceed to checkout">>],
     log |-> grocery_result.log]

\* the branch `elif domain == 'grocery'`
DirectGrocery(query, credit_card, catalogue) ==
    DirectGroceryResult(
        analyze_grocery_prices_tool(query,
            IF Truthy(credit_card) THEN <<credit_card>> ELSE <<"No Card">>,
            catalogue))

DirectFlightResult(departure, arrival, flight_result) ==
    [ret |-> [summary |-> [text |-> "I found flight options",
                           count |-> Len(flight_result.flights),
                           departure |-> departure, arrival |-> arrival],
              flights |-> Prefix(flight_result.flights, 5),
              best_option |-> IF flight_result.flights # <<>>
                              THEN flight_result.flights[1] ELSE NoDict,
              price_trends |-> "Prices are moderate for this route.",
              booking_advice |-> <<"Compare airline policies",
                                   "Check baggage allowances",
                                   "Consider travel insurance">>,
              next_steps |-> <<"Select preferred flight", "Review booking terms",
                               "Proceed to booking">>],
     log |-> flight_result.log]

\* the branch `elif domain == 'flight'`
DirectFlight(departure, arrival) ==
    DirectFlightResult(departure, arrival, scrape_flights_tool(departure, arrival, 10))

DirectDispatch(domain, query, credit_card, extracted_params, catalogue) ==
    IF domain = "product"
    THEN DirectProduct(Get(extracted_params, "product_name", query), credit_card)
    ELSE IF domain = "grocery"
    THEN DirectGrocery(query, credit_card, catalogue)
    ELSE IF domain = "flight"
    THEN DirectFlight(Get(extracted_params, "departure", "Delhi"),
                      Get(extracted_params, "arrival", "Mumbai"))
    ELSE [ret |-> [summary |-> [text |-> "I understand you're looking for help"],
                   error |-> "Direct tool execution not implemented for domain"],
          log |-> <<>>]

\* OrchestratorAgent._execute_direct_tools: the value returned and the log
\* records written
execute_direct_tools(domain, query, credit_card, intent_result, catalogue) ==
    DirectDispatch(domain, query, credit_card,
                   Get(intent_result, "extracted_params", EmptyDict), catalogue)

(***************************************************************************)
(* classify_query_intent_tool and route_query_to_agent.  A confidence is   *)
(* a whole number of hundredths: 0.8 is 80.                                *)
(***************************************************************************)
\* a query that is not a string (None), on which str.lower raises
NotAString == <<"NOT_A_STRING">>

\* t.index(k) for k in t, counted from 1
Index(t, k) ==
    CHOOSE i \in 1..(Len(t) - Len(k) + 1) :
       /\ SubSeq(t, i, i + Len(k) - 1) = k
       /\ \A j \in 1..(i - 1) : SubSeq(t, j, j + Len(k) - 1) # k

ProductIntentKeywords ==
    {<<"b", "u", "y">>,
     <<"p", "u", "r", "c", "h", "a", "s", "e">>,
     <<"p", "r", "o", "d", "u", "c", "t">>,
     <<"p", "r", "i", "c", "e">>,
     <<"c", "o", "m", "p", "a", "r", "e">>,
     <<"i", "p", "h", "o", "n", "e">>,
     <<"l", "a", "p", "t", "o", "p">>,
     <<"p", "h", "o", "n", "e">>,
     <<"s", "m", "a", "r", "t", "p", "h", "o", "n", "e">>,
     <<"s", "a", "m", "s", "u", "n", "g">>}

FlightIntentKeywords ==
    {<<"f", "l", "i", "g", "h", "t">>,
     <<"f", "l", "y">>,
     <<"t", "r", "a", "v", "e", "l">>,
     <<"a", "i", "r", "p", "o", "r", "t">>,
     <<"a", "i", "r", "l", "i", "n", "e">>,
     <<"b", "o", "o", "k">>,
     <<"t", "i", "c", "k", "e", "t">>,
     <<"t", "r", "i", "p">>}

GroceryIntentKeywords ==
    {<<"g", "r", "o", "c", "e", "r", "y">>,
     <<"m", "i", "l", "k">>,
     <<"b", "r", "e", "a", "d">>,
     <<"f", "o", "o", "d">>,
     <<"v", "e", "g", "e", "t", "a", "b", "l", "e", "s">>,
     <<"f", "r", "u", "i", "t", "s">>,
     <<"d", "a", "i", "l", "y">>,
     <<"e", "s", "s", "e", "n", "t", "i", "a", "l", "s">>}

KwIphone == <<"i", "p", "h", "o", "n", "e">>
KwLaptop == <<"l", "a", "p", "t", "o", "p">>
KwSamsung == <<"s", "a", "m", "s", "u", "n", "g">>
KwFrom == <<"f", "r", "o", "m">>
KwTo == <<"t", "o">>
KwVegetables == <<"v", "e", "g", "e", "t", "a", "b", "l", "e", "s">>
KwVeggie == <<"v", "e", "g", "g", "i", "e">>
KwFruits == <<"f", "r", "u", "i", "t", "s">>
KwFruit == <<"f", "r", "u", "i", "t">>

\* airport_mappings, in the order of the dict literal
airport_mappings ==
    <<[city |-> <<"d", "e", "l", "h", "i">>, code |-> "DEL"],
      [city |-> <<"d", "e", "l">>, code |-> "DEL"],
      [city |-> <<"m", "u", "m", "b", "a", "i">>, code |-> "BOM"],
      [city |-> <<"b", "o", "m">>, code |-> "BOM"],
      [city |-> <<"b", "o", "m", "b", "a", "y">>, code |-> "BOM"],
      [city |-> <<"b", "a", "n", "g", "a", "l", "o", "r", "e">>, code |-> "BLR"],
      [city |-> <<"b", "l", "r">>, code |-> "BLR"],
      [city |-> <<"b", "e", "n", "g", "a", "l", "u", "r", "u">>, code |-> "BLR"],
      [city |-> <<"c", "h", "e", "n", "n", "a", "i">>, code |-> "MAA"],
      [city |-> <<"m", "a", "a">>, code |-> "MAA"],
      [city |-> <<"m", "a", "d", "r", "a", "s">>, code |-> "MAA"],
      [city |-> <<"h", "y", "d", "e", "r", "a", "b", "a", "d">>, code |-> "HYD"],
      [city |-> <<"h", "y", "d">>, code |-> "HYD"],
      [city |-> <<"p", "u", "n", "e">>, code |-> "PNQ"],
      [city |-> <<"p", "n", "q">>, code |-> "PNQ"],
      [city |-> <<"k", "o", "l", "k", "a", "t", "a">>, code |-> "CCU"],
      [city |-> <<"c", "c", "u">>, code |-> "CCU"],
      [city |-> <<"g", "o", "a">>, code |-> "GOI"],
      [city |-> <<"g", "o", "i">>, code |-> "GOI"]>>

\* d[key] = value on a dict
SetKey(d, key, value) ==
    [k \in DOMAIN d \cup {key} |-> IF k = key THEN value ELSE d[k]]

\* the product name of a product_search query
ProductName(user_query, query_lower) ==
    IF Contains(query_lower, KwIphone) THEN <<"i", "P", "h", "o", "n", "e">>
    ELSE IF Contains(query_lower, KwLaptop) THEN KwLaptop
    ELSE IF Contains(query_lower, KwSamsung) THEN <<"S", "a", "m", "s", "u", "n", "g">>
    ELSE user_query

\* the body of `if city in query_lower`
AirportFound(extracted_params, query_lower, city, code) ==
    IF Contains(query_lower, KwFrom) /\ Index(query_lower, city) > Index(query_lower, KwFrom)
    THEN SetKey(extracted_params, "departure", code)
    ELSE IF Contains(query_lower, KwTo) /\ Index(query_lower, city) > Index(query_lower, KwTo)
    THEN SetKey(extracted_params, "arrival", code)
    ELSE IF "departure" \notin DOMAIN extracted_params
    THEN SetKey(extracted_params, "departure", code)
    ELSE IF "arrival" \notin DOMAIN extracted_params
    THEN SetKey(extracted_params, "arrival", code)
    ELSE extracted_params

RECURSIVE AirportLoop(_, _, _)
\* the loop `for city, code in airport_mappings.items()` from entry i on
AirportLoop(extracted_params, query_lower, i) ==
    IF i > Len(airport_mappings) THEN extracted_params
    ELSE AirportLoop(
             IF Contains(query_lower, airport_mappings[i].city)
             THEN AirportFound(extracted_params, query_lower,
                               airport_mappings[i].city, airport_mappings[i].code)
             ELSE extracted_params,
             query_lower, i + 1)

\* items of a grocery_search query
GroceryItems(query_lower) ==
    LET items ==
          (IF Contains(query_lower, KwMilk) THEN <<"milk">> ELSE <<>>)
          \o (IF Contains(query_lower, KwBread) THEN <<"bread">> ELSE <<>>)
          \o (IF Contains(query_lower, KwVegetables) \/ Contains(query_lower, KwVeggie)
              THEN <<"vegetables">> ELSE <<>>)
          \o (IF Contains(query_lower, KwFruits) \/ Contains(query_lower, KwFruit)
              THEN <<"fruits">> ELSE <<>>)
    IN  IF items = <<>> THEN <<"groceries">> ELSE items

\* the dict returned by the try block
IntentResult(intent, confidence, extracted_params) ==
    [intent |-> intent,
     confidence |-> confidence,
     extracted_params |-> extracted_params,
     missing_params |-> <<>>,
     clarifying_questions |-> <<>>]

\* mutant: the grocery keywords are tested before the product keywords
Mut_ClassifyLower(user_query, query_lower) ==
    IF AnyIn(GroceryIntentKeywords, query_lower)
    THEN IntentResult("grocery_search", 80, [items |-> GroceryItems(query_lower)])
    ELSE IF AnyIn(ProductIntentKeywords, query_lower)
    THEN IntentResult("product_search", 80,
                      [product_name |-> ProductName(user_query, query_lower)])
    ELSE IF AnyIn(FlightIntentKeywords, query_lower)
    THEN IntentResult("flight_search", 80, AirportLoop(EmptyDict, query_lower, 1))
    ELSE IntentResult("general_question", 30, EmptyDict)

\* the if/elif chain on query_lower
ClassifyLower(user_query, query_lower) ==
    IF AnyIn(ProductIntentKeywords, query_lower)
    THEN IntentResult("product_search", 80,
                      [product_name |-> ProductName(user_query, query_lower)])
    ELSE IF AnyIn(FlightIntentKeywords, query_lower)
    THEN IntentResult("flight_search", 80, AirportLoop(EmptyDict, query_lower, 1))
    ELSE IF AnyIn(GroceryIntentKeywords, query_lower)
    THEN IntentResult("grocery_search", 80, [items |-> GroceryItems(query_lower)])
    ELSE IntentResult("general_question", 30, EmptyDict)

\* the dict returned by the except block
ClassifyFailed ==
    [intent |-> "general_question",
     confidence |-> 10,
     extracted_params |-> EmptyDict,
     missing_params |-> <<>>,
     clarifying_questions |-> <<>>,
     error |-> "'NoneType' object has no attribute 'lower'"]

\* the value returned and the log records written
classify_query_intent_tool(user_query) ==
    IF user_query = NotAString
    THEN [ret |-> ClassifyFailed,
          log |-> <<[level |-> "info", event |-> "Intent classification tool called"],
                    [level |-> "error", event |-> "Intent classification tool error"]>>]
    ELSE [ret |-> ClassifyLower(user_query, Lower(user_query)),
          log |-> <<[level |-> "info", event |-> "Intent classification tool called"]>>]

RouterProductWords ==
    {<<"b", "u", "y">>,
     <<"p", "u", "r", "c", "h", "a", "s", "e">>,
     <<"p", "r", "o", "d", "u", "c", "t">>,
     <<"p", "h", "o", "n", "e">>,
     <<"l", "a", "p", "t", "o", "p">>,
     <<"e", "l", "e", "c", "t", "r", "o", "n", "i", "c", "s">>}

RouterGroceryWords ==
    {<<"g", "r", "o", "c", "e", "r", "y">>,
     <<"m", "i", "l", "k">>,
     <<"b", "r", "e", "a", "d">>,
     <<"f", "o", "o", "d">>,
     <<"v", "e", "g", "e", "t", "a", "b", "l", "e", "s">>,
     <<"f", "r", "u", "i", "t", "s">>}

RouterFlightWords ==
    {<<"f", "l", "i", "g", "h", "t">>,
     <<"f", "l", "y">>,
     <<"t", "r", "a", "v", "e", "l">>,
     <<"a", "i", "r", "p", "o", "r", "t">>,
     <<"b", "o", "o", "k", "i", "n", "g">>}

\* the if/elif chain of the router on query.lower(); intent_result is read
\* but not used
RouteLower(query_lower) ==
    IF AnyIn(RouterProductWords, query_lower) THEN "product"
    ELSE IF AnyIn(RouterGroceryWords, query_lower) THEN "grocery"
    ELSE IF AnyIn(RouterFlightWords, query_lower) THEN "flight"
    ELSE "product"

route_query_to_agent(query, intent_result) == RouteLower(Lower(query))

\* intent and confidence as process_conversation reads them from the result
\* of the classifier
PipelineIntent(intent_result) == Get(intent_result, "intent", "general_question")

PipelineConfidence(intent_result) == Get(intent_result, "confidence", 0)

(***************************************************************************)
(* ProductAgent: the constructor of BaseAgent, process_query and the call  *)
(* of the external language model in _analyze_with_ai.  The answer of the  *)
(* language model is a record: kind "json_list" with the decoded list,     *)
(* "json_numbers" (a JSON list that holds numbers), "json_object" (JSON    *)
(* that is not a list), "not_json", "exception" (generate_content raises)  *)
(* and "no_return" (generate_content never returns).                       *)
(***************************************************************************)
NoOracle == [kind |-> "none"]

\* _get_sample_product_data
SampleProductData(query) ==
    <<[title |-> <<"S", "a", "m", "p", "l", "e", " ">> \o query
                  \o <<" ", "-", " ", "P", "r", "e", "m", "i", "u", "m", " ", "M", "o", "d", "e", "l">>,
       price |-> 50000 * Scale, platform |-> "Amazon", rating |-> 45,
       availability |-> "In Stock"],
      [title |-> <<"S", "a", "m", "p", "l", "e", " ">> \o query
                  \o <<" ", "-", " ", "S", "t", "a", "n", "d", "a", "r", "d", " ", "M", "o", "d", "e", "l">>,
       price |-> 35000 * Scale, platform |-> "Flipkart", rating |-> 42,
       availability |-> "In Stock"]>>

\* analyzed_product of _fallback_analysis for a product and its benefit
FallbackProduct(product, original_price, card_benefit, credit_card) ==
    [product_title |-> Get(product, "title", <<"U", "n", "k", "n", "o", "w", "n">>),
     platform |-> Get(product, "platform", "Unknown"),
     original_price |-> original_price,
     effective_price |-> original_price - card_benefit,
     credit_card_discount |-> card_benefit,
     total_discount |-> card_benefit,
     savings_percentage |->
        IF original_price > 0 THEN (card_benefit * 100) \div original_price ELSE 0,
     recommended_card |-> IF Truthy(credit_card) THEN credit_card ELSE "No card specified",
     confidence_score |-> 70]

\* the body of `for product in products` of _fallback_analysis
FallbackPriced(product, original_price, credit_card) ==
    FallbackProduct(product, original_price,
                    IF Truthy(credit_card) THEN Percent(original_price, 2) ELSE 0,
                    credit_card)

\* _fallback_analysis: one analyzed product per product
_fallback_analysis(products, credit_card) ==
    [k \in 1..Len(products) |->
        FallbackPriced(products[k], Get(products[k], "price", 0), credit_card)]

\* sorted(products, key=effective_price)[0], or None
_find_best_deal(products) ==
    IF products = <<>> THEN NoDict ELSE SortByEffectivePrice(products)[1]

RECURSIVE SumTotalDiscount(_)
\* sum(p.get('total_discount', 0) for p in analysis_result)
SumTotalDiscount(analysis_result) ==
    IF analysis_result = <<>> THEN 0
    ELSE Get(analysis_result[1], "total_discount", 0)
           + SumTotalDiscount(Tail(analysis_result))

\* the value _analyze_with_ai returns for an answer of the language model
\* that generate_content returned or raised
AnalysisResult(answer, products, credit_card) ==
    CASE answer.kind = "json_list" -> answer.analyses
      [] answer.kind = "json_numbers" -> answer.analyses
      [] answer.kind = "json_object" -> <<>>
      [] OTHER -> _fallback_analysis(products, credit_card)

\* the log records of _analyze_with_ai
AnalysisLog(answer) ==
    IF answer.kind \in {"not_json", "exception"}
    THEN <<[level |-> "error", event |-> "AI analysis failed"]>>
    ELSE <<>>

\* the dict of the try block of process_query
AgentSuccess(analysis_result) ==
    [summary |-> [text |-> "Found products with credit card optimization",
                  count |-> Len(analysis_result)],
     products |-> analysis_result,
     best_deal |-> _find_best_deal(analysis_result),
     total_savings |-> SumTotalDiscount(analysis_result),
     next_steps |-> <<"Compare prices across platforms", "Check credit card benefits",
                      "Review delivery options">>,
     domain |-> "product"]

\* the dict of the except block of process_query: a list of numbers has no
\* element with a method get
AgentError ==
    [summary |-> [text |-> "Sorry, I encountered an error analyzing products"],
     error |-> "'int' object has no attribute 'get'",
     domain |-> "product"]

\* the value process_query returns and the log records it writes once
\* generate_content has returned or raised
process_query(query, credit_card, answer) ==
    IF answer.kind = "json_numbers" /\ answer.analyses # <<>>
    THEN [ret |-> AgentError,
          log |-> <<[level |-> "error", event |-> "Error in product agent"]>>]
    ELSE [ret |-> AgentSuccess(AnalysisResult(answer, SampleProductData(query),
                                              credit_card)),
          log |-> AnalysisLog(answer)]

(***************************************************************************)
(* OrchestratorAgent._format_response.  An Optional list is a record: the  *)
(* list under the key items, or NoDict for None.                           *)
(***************************************************************************)
DataKeys == {"products", "flights", "grocery_items", "cart", "total_savings"}

\* data: the data keys that are in agent_response; `data if data else None`
ResponseData(agent_response) ==
    IF DOMAIN agent_response \cap DataKeys = {} THEN NoDict
    ELSE [k \in DOMAIN agent_response \cap DataKeys |-> agent_response[k]]

\* the truth value of agent_response.get(key) for a key that holds a dict
\* or None
TruthyDict(agent_response, key) ==
    /\ key \in DOMAIN agent_response
    /\ ~IsNone(agent_response[key])
    /\ DOMAIN agent_response[key] # {}

\* the truth value of agent_response.get(key) for a key that holds a text
TruthyText(agent_response, key) ==
    key \in DOMAIN agent_response /\ Truthy(agent_response[key])

\* mutant: the suggestions are built in reverse order
Mut_SuggestionActions(next_steps) ==
    [k \in 1..Len(next_steps) |->
        [type |-> "suggestion", description |-> next_steps[Len(next_steps) + 1 - k]]]

SuggestionActions(next_steps) ==
    [k \in 1..Len(next_steps) |-> [type |-> "suggestion", description |-> next_steps[k]]]

\* actions: purchase, book, then one suggestion per next step
ResponseActions(agent_response) ==
    (IF TruthyDict(agent_response, "best_deal")
     THEN <<[type |-> "purchase", description |-> "Purchase recommended product",
             data |-> agent_response.best_deal]>>
     ELSE <<>>)
    \o (IF TruthyDict(agent_response, "best_option")
        THEN <<[type |-> "book", description |-> "Book recommended flight",
                data |-> agent_response.best_option]>>
        ELSE <<>>)
    \o SuggestionActions(Get(agent_response, "next_steps", <<>>))

\* `actions if actions else None`
OptionalList(actions) == IF actions = <<>> THEN NoDict ELSE [items |-> actions]

\* the ChatResponse; timestamp is datetime.now(), original_query is not used
_format_response(conversation_id, agent_response, intent, domain, now) ==
    [conversation_id |-> conversation_id,
     timestamp |-> now,
     message |-> Get(agent_response, "summary",
                     [text |-> "I found some results for your query."]),
     intent |-> intent,
     agent_used |-> domain,
     data |-> ResponseData(agent_response),
     actions |-> OptionalList(ResponseActions(agent_response)),
     status |-> IF TruthyText(agent_response, "error") THEN "error" ELSE "success",
     error |-> Get(agent_response, "error", None)]

(***************************************************************************)
(* OrchestratorAgent.process_conversation, _execute_agent and              *)
(* initialize_agent_runners.  A call of process_conversation keeps its     *)
(* locals in a record: pc, the conversation id, the intent result, the     *)
(* domain, the runner registry it saw, what the runner did, the agent      *)
(* response, the ChatResponse it returned and the steps it took.           *)
(***************************************************************************)
\* the keys of DOMAIN_AGENTS
AgentDomains == {"product", "grocery", "flight"}

\* str(uuid.uuid4()) of the i-th call
uuid4(i) ==
    CASE i = 1 -> "uuid-1" [] i = 2 -> "uuid-2" [] i = 3 -> "uuid-3" [] OTHER -> "uuid-4"

\* request.session_id or str(uuid.uuid4())
ConversationId(request, i) ==
    IF Truthy(request.session_id) THEN request.session_id ELSE uuid4(i)

\* a value decoded from JSON that is not a dict, on which .get raises
NotADict == [not_a_dict |-> TRUE]

IsDict(v) == "not_a_dict" \notin DOMAIN v

NoOutcome == [kind |-> "none"]

NewCall(conversation_id) ==
    [pc |-> "start",
     conversation_id |-> conversation_id,
     intent_result |-> NoDict,
     domain |-> None,
     seen |-> {},
     outcome |-> NoOutcome,
     agent_response |-> NoDict,
     response |-> NoDict,
     trace |-> <<>>]

\* mutant: the missing parameters are not looked at
Mut_NeedsClarification(intent_result) ==
    PipelineConfidence(intent_result) > 70

\* `if missing_params and confidence > 0.7`
NeedsClarification(intent_result) ==
    /\ Get(intent_result, "missing_params", <<>>) # <<>>
    /\ PipelineConfidence(intent_result) > 70

\* the ChatResponse of step 2
ClarificationResponse(conversation_id, intent_result, now) ==
    [conversation_id |-> conversation_id,
     timestamp |-> now,
     message |-> [text |-> "I'd be happy to help you with that!",
                  questions |-> Get(intent_result, "clarifying_questions", <<>>)],
     intent |-> PipelineIntent(intent_result),
     agent_used |-> "orchestrator",
     data |-> NoDict,
     follow_up_questions |-> Get(intent_result, "clarifying_questions", <<>>),
     actions |-> NoDict,
     status |-> "needs_clarification",
     error |-> None]

\* the ChatResponse of the handler `except Exception as e`
ErrorResponse(conversation_id, e, now) ==
    [conversation_id |-> conversation_id,
     timestamp |-> now,
     message |-> [text |-> "I apologize, but I encountered an error processing your request."],
     intent |-> "error",
     agent_used |-> "orchestrator",
     data |-> NoDict,
     actions |-> NoDict,
     status |-> "error",
     error |-> e]

\* steps 1 and 2 with the result of the classifier
Classified(r, intent_result, now) ==
    IF NeedsClarification(intent_result)
    THEN [r EXCEPT !.pc = "done",
                   !.intent_result = intent_result,
                   !.trace = Append(@, "classify"),
                   !.response = ClarificationResponse(r.conversation_id, intent_result, now)]
    ELSE [r EXCEPT !.pc = "classified",
                   !.intent_result = intent_result,
                   !.trace = Append(@, "classify")]

AfterClassify(r, request, now) ==
    Classified(r, classify_query_intent_tool(request.query).ret, now)

\* str(HTTPException(status_code=500, detail=...))
RunnerNotAvailable(domain) ==
    CASE domain = "product" -> "500: Agent runner for product not available"
      [] domain = "grocery" -> "500: Agent runner for grocery not available"
      [] OTHER -> "500: Agent runner for flight not available"

\* step 3 with the domain of the router and the registry `runners`
Routed(r, domain, registry, now) ==
    IF domain \notin registry
    THEN [r EXCEPT !.pc = "done",
                   !.domain = domain,
                   !.seen = registry,
                   !.trace = Append(@, "route"),
                   !.response = ErrorResponse(r.conversation_id, RunnerNotAvailable(domain),
                                              now)]
    ELSE [r EXCEPT !.pc = "agent",
                   !.domain = domain,
                   !.seen = registry,
                   !.trace = Append(@, "route")]

AfterRoute(r, request, registry, now) ==
    Routed(r, route_query_to_agent(request.query, r.intent_result), registry, now)

\* the value _execute_agent returns for what the runner did: the final
\* response is JSON (the decoded value is returned as it is), is text that
\* is not JSON, or there is no final response
execute_agent(outcome) ==
    CASE outcome.kind = "json" -> outcome.value
      [] outcome.kind = "text" ->
           [summary |-> [text |-> "plain text"], raw_response |-> "plain text"]
      [] OTHER -> [summary |-> [text |-> "Agent completed successfully"], events |-> 1]

\* step 4, the runner has finished
AfterAgent(r, outcome) ==
    [r EXCEPT !.pc = "format",
              !.outcome = outcome,
              !.agent_response = execute_agent(outcome),
              !.trace = Append(@, "agent")]

\* step 4, _execute_agent raised: `except Exception as agent_error`
AfterAgentRaised(r) ==
    [r EXCEPT !.pc = "direct",
              !.outcome = [kind |-> "raises"],
              !.trace = Append(@, "agent raised")]

\* mutant: the direct tools of the product domain are run
Mut_AfterDirect(r, request, catalogue) ==
    [r EXCEPT !.pc = "format",
              !.agent_response =
                  execute_direct_tools("product", request.query, request.credit_card,
                                       r.intent_result, catalogue).ret,
              !.trace = Append(@, "direct")]

\* the fallback of step 4: _execute_direct_tools for the routed domain
AfterDirect(r, request, catalogue) ==
    [r EXCEPT !.pc = "format",
              !.agent_response =
                  execute_direct_tools(r.domain, request.query, request.credit_card,
                                       r.intent_result, catalogue).ret,
              !.trace = Append(@, "direct")]

\* mutant: an agent response that is not a dict makes the call raise
Mut_AfterFormat(r, now) ==
    IF IsDict(r.agent_response)
    THEN [r EXCEPT !.pc = "done",
                   !.trace = Append(@, "format"),
                   !.response = _format_response(r.conversation_id, r.agent_response,
                                                 PipelineIntent(r.intent_result), r.domain,
                                                 now)]
    ELSE [r EXCEPT !.pc = "raised", !.trace = Append(@, "format")]

\* step 5; agent_response.get raises on a value that is not a dict, and
\* the handler of process_conversation returns the error response
AfterFormat(r, now) ==
    IF IsDict(r.agent_response)
    THEN [r EXCEPT !.pc = "done",
                   !.trace = Append(@, "format"),
                   !.response = _format_response(r.conversation_id, r.agent_response,
                                                 PipelineIntent(r.intent_result), r.domain,
                                                 now)]
    ELSE [r EXCEPT !.pc = "done",
                   !.trace = Append(@, "format"),
                   !.response = ErrorResponse(r.conversation_id,
                                              "'list' object has no attribute 'get'", now)]

\* process_conversation from step 4 on, for what the runner did
FromAgent(r, request, outcome, catalogue, now) ==
    IF r.pc = "done" THEN r
    ELSE IF outcome.kind = "raises"
    THEN AfterFormat(AfterDirect(AfterAgentRaised(r), request, catalogue), now)
    ELSE AfterFormat(AfterAgent(r, outcome), now)

\* process_conversation from step 3 on
FromRoute(r, request, registry, outcome, catalogue, now) ==
    IF r.pc = "done" THEN r
    ELSE FromAgent(AfterRoute(r, request, registry, now), request, outcome, catalogue, now)

\* one call of process_conversation that runs alone from start to end with
\* the registry it finds and with what its runner does
process_conversation(request, conversation_id, registry, outcome, catalogue, now) ==
    FromRoute(AfterClassify(NewCall(conversation_id), request, now),
              request, registry, outcome, catalogue, now)

(***************************************************************************)
(* The inputs of the calls.                                                *)
(***************************************************************************)
Price61499 == <<"RUPEE", "6", "1", ",", "4", "9", "9">>
Price59900 == <<"RUPEE", "5", "9", ",", "9", "0", "0">>
PriceRs500 == <<"R", "s", ".", " ", "5", "0", "0">>
PriceBare == <<"6", "1", "4", "9", "9">>

\* price texts of the offers; NoText stands for an offer without 'price_str'
OfferPrices == {Price61499, Price59900, PriceRs500, PriceBare, RupeeZero, NoText}

CardNames == {"HDFC Bank Millennia", "SBI SimplyCLICK", "Amazon Pay ICICI",
              "Unknown Bank Card"}

SeqsUpTo(S, n) == UNION {[1..k -> S] : k \in 0..n}

OfferTitle(k) ==
    CASE k = 1 -> "Offer 1" [] k = 2 -> "Offer 2" [] k = 3 -> "Offer 3"
      [] k = 4 -> "Offer 4" [] OTHER -> "Offer 5"

\* the k-th offer of a list, with the price text p
Offer(k, p, nested) ==
    LET listing == IF p = NoText THEN [title |-> OfferTitle(k)]
                   ELSE [title |-> OfferTitle(k), price_str |-> p]
    IN  IF nested THEN [listing_info |-> listing] ELSE listing

ProductLists ==
    {[k \in 1..Len(ps) |-> Offer(k, ps[k], nested)] :
        ps \in SeqsUpTo(OfferPrices, MaxOffers), nested \in BOOLEAN}

ProductArgs ==
    [products : ProductLists, user_credit_cards : SeqsUpTo(CardNames, MaxCards)]

\* amounts: negative, zero, 57.50, 500 and 61,499 rupees
Amounts == {0 - 500 * Scale, 0, 575000, 500 * Scale, 61499 * Scale}

Categories == {"general", "online", "grocery", "travel"}

QMilkAndBread == <<"m", "i", "l", "k", " ", "a", "n", "d", " ", "b", "r", "e", "a", "d">>
QBreadAndMilk == <<"B", "r", "e", "a", "d", " ", "a", "n", "d", " ", "M", "i", "l", "k">>
QNeedBread == <<"n", "e", "e", "d", " ", "b", "r", "e", "a", "d">>
QDailyGrocery == <<"d", "a", "i", "l", "y", " ", "g", "r", "o", "c", "e", "r", "y">>

GroceryQueries == {QMilkAndBread, QBreadAndMilk, QNeedBread, QDailyGrocery}

GroceryArgs ==
    [grocery_query : GroceryQueries,
     user_credit_cards :
        SeqsUpTo({"HDFC Bank Millennia", "SBI SimplySAVE", "No Card"}, MaxCards)]

\* the products of a platform with the price text of the products at the
\* positions in picked replaced by price
Repriced(products, picked, price) ==
    [k \in 1..Len(products) |->
        IF k \in picked THEN [products[k] EXCEPT !.price = price]
        ELSE products[k]]

\* the positions of the products of a platform that are milk
MilkAt(products) == {k \in 1..Len(products) : Contains(Lower(products[k].product_title), KwMilk)}

\* the positions of the products of a platform priced at 29 rupees
CheapMilkAt(products) == {k \in 1..Len(products) : products[k].price = <<"RUPEE", "2", "9">>}

IsBread(p) == Contains(Lower(p.product_title), KwBread)

NotBread(p) == ~IsBread(p)

\* a price text without a currency marker, and one without a number
PriceNoMarker == <<"2", "9">>
PriceNA == <<"N", "/", "A">>

\* catalogues: the one of the source; one scraped price without a currency
\* marker; no milk price readable; no bread on offer
Catalogues ==
    {MOCK_GROCERY_SHIPPED,
     [blinkit |-> Repriced(MOCK_GROCERY_SHIPPED.blinkit,
                          CheapMilkAt(MOCK_GROCERY_SHIPPED.blinkit), PriceNoMarker),
      zepto |-> MOCK_GROCERY_SHIPPED.zepto],
     [blinkit |-> Repriced(MOCK_GROCERY_SHIPPED.blinkit, MilkAt(MOCK_GROCERY_SHIPPED.blinkit), PriceNA),
      zepto |-> Repriced(MOCK_GROCERY_SHIPPED.zepto, MilkAt(MOCK_GROCERY_SHIPPED.zepto), PriceNA)],
     [blinkit |-> SelectSeq(MOCK_GROCERY_SHIPPED.blinkit, NotBread),
      zepto |-> SelectSeq(MOCK_GROCERY_SHIPPED.zepto, NotBread)]}

QIphone15 == <<"i", "p", "h", "o", "n", "e", " ", "1", "5">>
QDellLaptop == <<"D", "e", "l", "l", " ", "l", "a", "p", "t", "o", "p">>
QGalaxyS24 == <<"g", "a", "l", "a", "x", "y", " ", "s", "2", "4">>
QMobilePhone == <<"m", "o", "b", "i", "l", "e", " ", "p", "h", "o", "n", "e">>
QSmartTv == <<"s", "m", "a", "r", "t", " ", "t", "v">>
NameIPhone == <<"i", "P", "h", "o", "n", "e">>

DirectQueries == {QIphone15, QDellLaptop, QGalaxyS24, QMobilePhone, QSmartTv,
                  QMilkAndBread}

\* intent results: without parameters, for a product, for a flight
IntentResults ==
    {[intent |-> "general_question"],
     [intent |-> "general_question", extracted_params |-> EmptyDict],
     [intent |-> "product_search", extracted_params |-> [product_name |-> NameIPhone]],
     [intent |-> "flight_search",
      extracted_params |-> [departure |-> "DEL", arrival |-> "BOM"]]}

DirectArgs ==
    [domain : {"product", "grocery", "flight", "general"},
     query : DirectQueries,
     credit_card : {None, "HDFC Bank Millennia", "SBI SimplySAVE", "Unknown Bank Card"},
     intent_result : IntentResults]

\* queries of the classifier and of the router
QFlightsFromDelhiToMumbai ==
    <<"F", "i", "n", "d", " ", "f", "l", "i", "g", "h", "t", "s", " ", "f", "r", "o",
      "m", " ", "D", "e", "l", "h", "i", " ", "t", "o", " ", "M", "u", "m", "b", "a", "i">>
QChennaiMumbaiFlight ==
    <<"C", "h", "e", "n", "n", "a", "i", " ", "M", "u",
      "m", "b", "a", "i", " ", "f", "l", "i", "g", "h", "t">>
QFlightPuneGoa == <<"f", "l", "i", "g", "h", "t", " ", "p", "u", "n", "e", " ", "g", "o", "a">>
QBookTicketToGoa ==
    <<"b", "o", "o", "k", " ", "a", " ", "t", "i", "c",
      "k", "e", "t", " ", "t", "o", " ", "g", "o", "a">>
QFlightBooking == <<"f", "l", "i", "g", "h", "t", " ", "b", "o", "o", "k", "i", "n", "g">>
QBuyMilk == <<"b", "u", "y", " ", "m", "i", "l", "k">>
QDailyEssentials ==
    <<"d", "a", "i", "l", "y", " ", "e", "s",
      "s", "e", "n", "t", "i", "a", "l", "s">>
QFreshFruit == <<"f", "r", "e", "s", "h", " ", "f", "r", "u", "i", "t">>
QHelloThere == <<"h", "e", "l", "l", "o", " ", "t", "h", "e", "r", "e">>
QSamsungGalaxy == <<"S", "A", "M", "S", "U", "N", "G", " ", "G", "a", "l", "a", "x", "y">>

Queries ==
    {QFlightsFromDelhiToMumbai, QChennaiMumbaiFlight, QFlightPuneGoa, QBookTicketToGoa,
     QFlightBooking, QBuyMilk, QDailyEssentials, QFreshFruit, QHelloThere,
     QSamsungGalaxy, QIphone15, QDellLaptop, QMilkAndBread, QBreadAndMilk, QSmartTv}

ClassifyArgs == [user_query : Queries \cup {NotAString}]

\* intent results of a classifier that is not sure of the intent
UnsureIntentResults ==
    {IntentResult("general_question", 30, EmptyDict),
     IntentResult("product_search", 50, EmptyDict),
     IntentResult("grocery_search", 60, EmptyDict)}

\* the router is called with the result of the classifier for the query, or
\* with the result of a classifier that is not sure
RouteArgs ==
    {[query |-> q, intent_result |-> r] :
        <<q, r>> \in {x \in Queries \X ({classify_query_intent_tool(q).ret : q \in Queries}
                                        \cup UnsureIntentResults) :
                        \/ x[2] = classify_query_intent_tool(x[1]).ret
                        \/ x[2] \in UnsureIntentResults}}

\* process_query of a ProductAgent; gemini_api_key is os.getenv("GEMINI_API_KEY")
AgentArgs ==
    [query : Queries,
     credit_card : {None, "HDFC Bank Millennia"},
     gemini_api_key : {None, "key"}]

\* an analysis as the language model is asked to return it
OracleAnalysis(title, original_price, total_discount) ==
    [product_title |-> title,
     platform |-> "Amazon",
     original_price |-> original_price,
     effective_price |-> original_price - total_discount,
     credit_card_discount |-> total_discount,
     total_discount |-> total_discount,
     recommended_card |-> "HDFC Bank Millennia",
     confidence_score |-> 90]

\* the answers of the language model that generate_content returns
OracleAnswers ==
    {[kind |-> "json_list",
      analyses |-> <<OracleAnalysis(<<"A">>, 50000 * Scale, 2500 * Scale),
                     OracleAnalysis(<<"B">>, 35000 * Scale, 1750 * Scale)>>],
     [kind |-> "json_list", analyses |-> <<>>],
     [kind |-> "json_numbers", analyses |-> <<1, 2>>],
     [kind |-> "json_object"],
     [kind |-> "not_json"]}

\* bundles a domain handler returns: without any key, with next steps only,
\* of an agent without and with offers, of the direct tools, and an error
AgentResponses ==
    {EmptyDict,
     [next_steps |-> <<"Try another query">>],
     [summary |-> [text |-> "Agent completed successfully"], events |-> 0],
     AgentSuccess(<<>>),
     AgentSuccess(_fallback_analysis(SampleProductData(QIphone15), "HDFC Bank Millennia")),
     AgentError,
     execute_direct_tools("product", QIphone15, "HDFC Bank Millennia",
                          [intent |-> "product_search"], MOCK_GROCERY_SHIPPED).ret,
     execute_direct_tools("grocery", QMilkAndBread, None,
                          [intent |-> "grocery_search"], MOCK_GROCERY_SHIPPED).ret,
     execute_direct_tools("grocery", QNeedBread, None, [intent |-> "grocery_search"],
                          [blinkit |-> SelectSeq(MOCK_GROCERY_SHIPPED.blinkit, NotBread),
                           zepto |-> SelectSeq(MOCK_GROCERY_SHIPPED.zepto, NotBread)]).ret,
     execute_direct_tools("flight", QFlightPuneGoa, None,
                          [intent |-> "flight_search"], MOCK_GROCERY_SHIPPED).ret,
     execute_direct_tools("general", QHelloThere, None,
                          [intent |-> "general_question"], MOCK_GROCERY_SHIPPED).ret,
     [best_deal |-> [product_title |-> <<"A">>],
      best_option |-> [airline |-> "IndiGo"],
      next_steps |-> <<"Compare", "Decide">>]}

FormatArgs ==
    [conversation_id : {"session-1"},
     agent_response : AgentResponses,
     intent : {"product_search", "grocery_search", "flight_search", "general_question"},
     domain : {"product", "grocery", "flight"}]

\* price texts: every text of at most MaxText characters of PriceAlphabet, and
\* longer examples
PriceAlphabet == {"RUPEE", "R", "s", ".", ",", " ", "1", "2"}

TNoPriceHere == <<"n", "o", " ", "p", "r", "i", "c", "e", " ", "h", "e", "r", "e">>
TIphone128 == <<"i", "P", "h", "o", "n", "e", " ", "1", "5", " ", "1", "2", "8", "G", "B">>
TInr == <<"I", "N", "R", " ", "1", ",", "2", "9", "9", ".", "5", "0">>
TAfter == <<"5", "0", "0", " ", "RUPEE">>
TLowerRs == <<"r", "s", ".", " ", "5", "0", "0">>
TFarNumber == <<"RUPEE", " ", "a", "p", "p", "r", "o", "x", " ", "5", "0", "0">>
TTwoPrices == <<"R", "s", " ", "5", "0", "0", " ", "o", "r", " ", "RUPEE", "4", "0", "0">>

PriceTexts ==
    SeqsUpTo(PriceAlphabet, MaxText)
      \cup {Price61499, PriceRs500, PriceBare, PriceNA, TNoPriceHere, TIphone128, TInr,
            TAfter, TLowerRs, TFarNumber, TTwoPrices}

ExtractArgs == [text : PriceTexts]

\* the ChatRequests of the calls of process_conversation
RequestList ==
    <<[query |-> QIphone15, credit_card |-> "HDFC Bank Millennia", session_id |-> "session-1"],
      [query |-> QMilkAndBread, credit_card |-> None, session_id |-> None],
      [query |-> QFlightPuneGoa, credit_card |-> None, session_id |-> ""]>>

\* at most MaxRequests calls are in flight; the calls are listed in the
\* order of RequestList
ConversationArgs ==
    {[requests |-> [k \in DOMAIN idx |-> RequestList[idx[k]]]] :
        idx \in {s \in SeqsUpTo(DOMAIN RequestList, MaxRequests) :
                   /\ s # <<>>
                   /\ \A k \in 1..(Len(s) - 1) : s[k] <= s[k + 1]}}

\* the bundles a runner answers with
RunnerBundles ==
    {[summary |-> [text |-> "Found products"],
      best_deal |-> [product_title |-> <<"A">>],
      next_steps |-> <<"Compare">>],
     AgentError}

\* what a runner does once it is run and finishes
RunnerOutcomes ==
    {[kind |-> "json", value |-> b] : b \in RunnerBundles \cup {NotADict}}
      \cup {[kind |-> "text"], [kind |-> "no_final"]}

\* the domains for which Runner(...) raises at startup
RunnerFailures == {{}, {"grocery"}, AgentDomains}

BenefitArgs ==
    [price : Amounts,
     card_name : CardNames \cup {"SBI SimplySAVE", "Flipkart Axis Bank", "No Card"},
     category : Categories]

(***************************************************************************)
(* State: one call of an operation, its arguments, the value it returned   *)
(* and the log records it wrote.                                           *)
(***************************************************************************)
VARIABLES pc, call, args, ret, log, MOCK_GROCERY, oracle, clock, prev, runners, startup, reqs

vars == <<pc, call, args, ret, log, MOCK_GROCERY, oracle, clock, prev, runners, startup, reqs>>

\* the variables only the repeated call of _format_response and the calls of
\* process_conversation change
others == <<clock, prev, runners, startup, reqs>>

Init ==
    /\ pc = "called"
    /\ ret = None
    /\ log = <<>>
    /\ oracle = NoOracle
    /\ clock = 1
    /\ prev = NoDict
    /\ runners = {}
    /\ startup = "pending"
    /\ \/ /\ call = "analyze_product_prices_tool"
          /\ args \in ProductArgs
          /\ MOCK_GROCERY = MOCK_GROCERY_SHIPPED
       \/ /\ call = "calculate_credit_card_benefits"
          /\ args \in BenefitArgs
          /\ MOCK_GROCERY = MOCK_GROCERY_SHIPPED
       \/ /\ call = "analyze_grocery_prices_tool"
          /\ args \in GroceryArgs
          /\ MOCK_GROCERY \in Catalogues
       \/ /\ call = "_execute_direct_tools"
          /\ args \in DirectArgs
          /\ MOCK_GROCERY \in (IF args.domain = "grocery" THEN Catalogues
                                ELSE {MOCK_GROCERY_SHIPPED})
       \/ /\ call = "classify_query_intent_tool"
          /\ args \in ClassifyArgs
          /\ MOCK_GROCERY = MOCK_GROCERY_SHIPPED
       \/ /\ call = "route_query_to_agent"
          /\ args \in RouteArgs
          /\ MOCK_GROCERY = MOCK_GROCERY_SHIPPED
       \/ /\ call = "ProductAgent.process_query"
          /\ args \in AgentArgs
          /\ MOCK_GROCERY = MOCK_GROCERY_SHIPPED
       \/ /\ call = "_format_response"
          /\ args \in FormatArgs
          /\ MOCK_GROCERY = MOCK_GROCERY_SHIPPED
       \/ /\ call = "extract_price_from_text"
          /\ args \in ExtractArgs
          /\ MOCK_GROCERY = MOCK_GROCERY_SHIPPED
       \/ /\ call = "process_conversation"
          /\ args \in ConversationArgs
          /\ MOCK_GROCERY = MOCK_GROCERY_SHIPPED
    /\ reqs = IF call = "process_conversation"
              THEN [i \in DOMAIN args.requests |->
                      NewCall(ConversationId(args.requests[i], i))]
              ELSE <<>>

CalculateCreditCardBenefits ==
    /\ pc = "called"
    /\ call = "calculate_credit_card_benefits"
    /\ ret' = calculate_credit_card_benefits(args.price, args.card_name, args.category)
    /\ pc' = "returned"
    /\ UNCHANGED <<call, args, log, MOCK_GROCERY, oracle, others>>

AnalyzeProductPrices ==
    /\ pc = "called"
    /\ call = "analyze_product_prices_tool"
    /\ \E r \in {analyze_product_prices_tool(args.products, args.user_credit_cards)} :
          ret' = r.ret /\ log' = r.log
    /\ pc' = "returned"
    /\ UNCHANGED <<call, args, MOCK_GROCERY, oracle, others>>

AnalyzeGroceryPrices ==
    /\ pc = "called"
    /\ call = "analyze_grocery_prices_tool"
    /\ \E r \in {analyze_grocery_prices_tool(args.grocery_query, args.user_credit_cards,
                                              MOCK_GROCERY)} :
          ret' = r.ret /\ log' = r.log
    /\ pc' = "returned"
    /\ UNCHANGED <<call, args, MOCK_GROCERY, oracle, others>>

ExecuteDirectTools ==
    /\ pc = "called"
    /\ call = "_execute_direct_tools"
    /\ \E r \in {execute_direct_tools(args.domain, args.query, args.credit_card,
                                       args.intent_result, MOCK_GROCERY)} :
          ret' = r.ret /\ log' = r.log
    /\ pc' = "returned"
    /\ UNCHANGED <<call, args, MOCK_GROCERY, oracle, others>>

ClassifyQueryIntent ==
    /\ pc = "called"
    /\ call = "classify_query_intent_tool"
    /\ \E r \in {classify_query_intent_tool(args.user_query)} :
          ret' = r.ret /\ log' = r.log
    /\ pc' = "returned"
    /\ UNCHANGED <<call, args, MOCK_GROCERY, oracle, others>>

RouteQueryToAgent ==
    /\ pc = "called"
    /\ call = "route_query_to_agent"
    /\ ret' = route_query_to_agent(args.query, args.intent_result)
    /\ pc' = "returned"
    /\ UNCHANGED <<call, args, log, MOCK_GROCERY, oracle, others>>

\* ProductAgent(): BaseAgent.__init__ raises without GEMINI_API_KEY; with it
\* process_query runs up to the call of generate_content
ConstructAgent ==
    /\ pc = "called"
    /\ call = "ProductAgent.process_query"
    /\ IF Truthy(args.gemini_api_key)
       THEN /\ pc' = "generate_content"
            /\ ret' = ret
            /\ log' = <<[level |-> "info", event |-> "agent initialized"],
                        [level |-> "info", event |-> "Processing product query"]>>
       ELSE /\ pc' = "raised"
            /\ ret' = "ValueError: GEMINI_API_KEY environment variable not set"
            /\ log' = <<[level |-> "error", event |-> "Failed to initialize agent"]>>
    /\ UNCHANGED <<call, args, MOCK_GROCERY, oracle, others>>

\* generate_content returns an answer of the language model
OracleReturns ==
    /\ pc = "generate_content"
    /\ \E answer \in OracleAnswers :
          /\ oracle' = answer
          /\ \E r \in {process_query(args.query, args.credit_card, answer)} :
                ret' = r.ret /\ log' = log \o r.log
    /\ pc' = "returned"
    /\ UNCHANGED <<call, args, MOCK_GROCERY, others>>

\* generate_content raises: the service fails or cannot be reached
OracleRaises ==
    /\ pc = "generate_content"
    /\ oracle' = [kind |-> "exception"]
    /\ \E r \in {process_query(args.query, args.credit_card, [kind |-> "exception"])} :
          ret' = r.ret /\ log' = log \o r.log
    /\ pc' = "returned"
    /\ UNCHANGED <<call, args, MOCK_GROCERY, others>>

\* generate_content never returns: the call is synchronous and has no
\* timeout, process_query stays at the call
OracleNeverReturns ==
    /\ pc = "generate_content"
    /\ oracle' = [kind |-> "no_return"]
    /\ pc' = "blocked"
    /\ UNCHANGED <<call, args, ret, log, MOCK_GROCERY, others>>

FormatResponse ==
    /\ pc = "called"
    /\ call = "_format_response"
    /\ ret' = _format_response(args.conversation_id, args.agent_response, args.intent,
                               args.domain, clock)
    /\ pc' = "returned"
    /\ UNCHANGED <<call, args, log, MOCK_GROCERY, oracle, others>>

\* time passes between two calls of _format_response, and while calls of
\* process_conversation are served
Tick ==
    /\ \/ call = "_format_response" /\ pc = "returned"
       \/ call = "process_conversation"
    /\ clock < MaxTime
    /\ clock' = clock + 1
    /\ UNCHANGED <<pc, call, args, ret, log, MOCK_GROCERY, oracle, prev, runners, startup, reqs>>

\* _format_response is called a second time with the same arguments
FormatResponseAgain ==
    /\ pc = "returned"
    /\ call = "_format_response"
    /\ prev' = ret
    /\ ret' = _format_response(args.conversation_id, args.agent_response, args.intent,
                               args.domain, clock)
    /\ pc' = "returned again"
    /\ UNCHANGED <<call, args, log, MOCK_GROCERY, oracle, clock, runners, startup, reqs>>

ExtractPrice ==
    /\ pc = "called"
    /\ call = "extract_price_from_text"
    /\ ret' = extract_price_from_text(args.text)
    /\ pc' = "returned"
    /\ UNCHANGED <<call, args, log, MOCK_GROCERY, oracle, others>>

\* the variables a call of process_conversation leaves alone
globals == <<pc, call, args, ret, log, MOCK_GROCERY, oracle, clock, prev, runners, startup>>

\* startup_event: initialize_agent_runners registers a runner for every
\* domain whose Runner(...) does not raise; the function does not await
Startup ==
    /\ call = "process_conversation"
    /\ startup = "pending"
    /\ \E failed \in RunnerFailures : runners' = runners \cup (AgentDomains \ failed)
    /\ startup' = "done"
    /\ UNCHANGED <<pc, call, args, ret, log, MOCK_GROCERY, oracle, clock, prev, reqs>>

\* steps 1 and 2 of the i-th call
Classify(i) ==
    /\ reqs[i].pc = "start"
    /\ reqs' = [reqs EXCEPT ![i] = AfterClassify(reqs[i], args.requests[i], clock)]
    /\ UNCHANGED globals

\* step 3 of the i-th call
Route(i) ==
    /\ reqs[i].pc = "classified"
    /\ reqs' = [reqs EXCEPT ![i] = AfterRoute(reqs[i], args.requests[i], runners, clock)]
    /\ UNCHANGED globals

\* the runner of the i-th call finishes
AgentReturns(i) ==
    /\ reqs[i].pc = "agent"
    /\ \E outcome \in RunnerOutcomes :
          reqs' = [reqs EXCEPT ![i] = AfterAgent(reqs[i], outcome)]
    /\ UNCHANGED globals

\* mutant: a runner that raised is taken out of the registry
Mut_AgentRaises(i) ==
    /\ reqs[i].pc = "agent"
    /\ reqs' = [reqs EXCEPT ![i] = AfterAgentRaised(reqs[i])]
    /\ runners' = runners \ {reqs[i].domain}
    /\ UNCHANGED <<pc, call, args, ret, log, MOCK_GROCERY, oracle, clock, prev, startup>>

\* the runner of the i-th call raises
AgentRaises(i) ==
    /\ reqs[i].pc = "agent"
    /\ reqs' = [reqs EXCEPT ![i] = AfterAgentRaised(reqs[i])]
    /\ UNCHANGED globals

\* the i-th call runs _execute_direct_tools
DirectTools(i) ==
    /\ reqs[i].pc = "direct"
    /\ reqs' = [reqs EXCEPT ![i] = AfterDirect(reqs[i], args.requests[i], MOCK_GROCERY)]
    /\ UNCHANGED globals

\* step 5 of the i-th call
Format(i) ==
    /\ reqs[i].pc = "format"
    /\ reqs' = [reqs EXCEPT ![i] = AfterFormat(reqs[i], clock)]
    /\ UNCHANGED globals

\* a step of the i-th call of process_conversation
RequestStep(i) ==
    \/ Classify(i)
    \/ Route(i)
    \/ AgentReturns(i)
    \/ AgentRaises(i)
    \/ DirectTools(i)
    \/ Format(i)

Next ==
    \/ CalculateCreditCardBenefits
    \/ AnalyzeProductPrices
    \/ AnalyzeGroceryPrices
    \/ ExecuteDirectTools
    \/ ClassifyQueryIntent
    \/ RouteQueryToAgent
    \/ ConstructAgent
    \/ OracleReturns
    \/ OracleRaises
    \/ OracleNeverReturns
    \/ FormatResponse
    \/ Tick
    \/ FormatResponseAgain
    \/ ExtractPrice
    \/ Startup
    \/ \E i \in DOMAIN reqs : Classify(i)
    \/ \E i \in DOMAIN reqs : Route(i)
    \/ \E i \in DOMAIN reqs : AgentReturns(i)
    \/ \E i \in DOMAIN reqs : AgentRaises(i)
    \/ \E i \in DOMAIN reqs : DirectTools(i)
    \/ \E i \in DOMAIN reqs : Format(i)

Spec == Init /\ [][Next]_vars

(***************************************************************************)
(* Properties of analyze_product_prices_tool and of                        *)
(* calculate_credit_card_benefits.                                         *)
(***************************************************************************)
ProductReturned == pc = "returned" /\ call = "analyze_product_prices_tool"

BenefitsReturned == pc = "returned" /\ call = "calculate_credit_card_benefits"

Known(card) == card \in DOMAIN CREDIT_CARD_BENEFITS

\* the price the k-th offer of the call resolves to
OfferPrice(k) ==
    extract_price_from_text(Get(ListingInfo(args.products[k]), "price_str", RupeeZero))

PricedOffers == {k \in 1..Len(args.products) : OfferPrice(k) > 0}

NumExcluded == Len(args.products) - Cardinality(PricedOffers)

Failed == "error" \in DOMAIN ret

\* the position in the input of the offer an analyzed product comes from
InputPos(a) == CHOOSE k \in 1..Len(args.products) : OfferTitle(k) = a.product_title

\* the cashback of a card of the call on a price
OnlineCashback(card, price) ==
    calculate_credit_card_benefits(price, card, "online").cashback_earned

\* C1: with an empty card list, every offer with a price > 0 is returned as
\* an analyzed offer with card "No Card", discount 0 and its original price
\* as effective price, and the call does not end in the error result.
C1_EmptyCardListAnalyzed ==
    (ProductReturned /\ args.user_credit_cards = <<>>) =>
        /\ ~Failed
        /\ \A k \in PricedOffers :
             \E i \in 1..Len(ret.analyzed_products) :
                LET a == ret.analyzed_products[i]
                IN  /\ a.product_title = OfferTitle(k)
                    /\ a.original_price = OfferPrice(k)
                    /\ a.recommended_card = "No Card"
                    /\ a.credit_card_discount = 0
                    /\ a.effective_price = a.original_price

\* C2: a card list that holds an unknown card name still yields one analyzed
\* offer per offer with a price > 0, and no error.
C2_UnknownCardNeverBlocks ==
    (ProductReturned
       /\ \E i \in 1..Len(args.user_credit_cards) : ~Known(args.user_credit_cards[i])) =>
        /\ ~Failed
        /\ Len(ret.analyzed_products) = Cardinality(PricedOffers)

\* C3: for a card name that is no key of the benefits table,
\* calculate_credit_card_benefits returns (it does not raise) cashback 0,
\* rate 0 and the description 'No card benefits available', whatever the
\* amount and the category.
C3_UnknownCardZeroBenefit ==
    (BenefitsReturned /\ ~Known(args.card_name)) =>
        /\ ret.cashback_earned = 0
        /\ ret.effective_cashback_rate = 0
        /\ ret.benefits_description = "No card benefits available"

C3_Witness ==
    /\ BenefitsReturned
    /\ ~Known(args.card_name)
    /\ args.price > 0
    /\ args.category = "grocery"
    /\ ret.cashback_earned = 0

C5_SortedStable ==
    (ProductReturned /\ ~Failed) =>
        \A i, j \in 1..Len(ret.analyzed_products) :
           i < j =>
             LET a == ret.analyzed_products[i]
                 b == ret.analyzed_products[j]
             IN  /\ a.effective_price <= b.effective_price
                 /\ a.effective_price = b.effective_price => InputPos(a) < InputPos(b)

\* the second offer is sorted before the first, and the first and the third
\* tie
C5_Witness ==
    /\ ProductReturned
    /\ ~Failed
    /\ Len(ret.analyzed_products) = 3
    /\ ret.analyzed_products[1].product_title = OfferTitle(2)
    /\ ret.analyzed_products[2].product_title = OfferTitle(1)
    /\ ret.analyzed_products[3].product_title = OfferTitle(3)
    /\ ret.analyzed_products[2].effective_price = ret.analyzed_products[3].effective_price
    /\ ret.analyzed_products[1].effective_price < ret.analyzed_products[2].effective_price

\* C8: with cards known to the table, the analyzed offers are exactly the
\* offers whose price text resolves to a price > 0, each once.
C8_ExactlyPricedOffers ==
    (ProductReturned
       /\ args.user_credit_cards # <<>>
       /\ \A i \in 1..Len(args.user_credit_cards) : Known(args.user_credit_cards[i])) =>
        /\ ~Failed
        /\ {ret.analyzed_products[i].product_title : i \in 1..Len(ret.analyzed_products)}
             = {OfferTitle(k) : k \in PricedOffers}
        /\ Len(ret.analyzed_products) = Cardinality(PricedOffers)
        /\ \A i \in 1..Len(ret.analyzed_products) :
             ret.analyzed_products[i].original_price > 0

\* offers with an unparseable price text, with the price 0 and with a price
\* > 0 in one call
C8_Witness ==
    /\ ProductReturned
    /\ \A i \in 1..Len(args.user_credit_cards) : Known(args.user_credit_cards[i])
    /\ Len(args.user_credit_cards) > 0
    /\ Len(args.products) = 3
    /\ Get(ListingInfo(args.products[1]), "price_str", NoText) = PriceBare
    /\ Get(ListingInfo(args.products[2]), "price_str", NoText) = RupeeZero
    /\ OfferPrice(3) > 0
    /\ Len(ret.analyzed_products) = 1

\* C9: when offers are excluded for a price <= 0, their number is reported:
\* some count of the result or of a log record is the number of excluded
\* offers.
C9_ExcludedCountReported ==
    (ProductReturned /\ ~Failed /\ NumExcluded > 0) =>
        \/ ret.total_products = NumExcluded
        \/ \E i \in 1..Len(log) : "count" \in DOMAIN log[i] /\ log[i].count = NumExcluded

(***************************************************************************)
(* Properties of analyze_grocery_prices_tool.                              *)
(***************************************************************************)
GroceryReturned == pc = "returned" /\ call = "analyze_grocery_prices_tool"

\* discount >= 0 and effective price = original price - discount <= original
DiscountInRange(a) ==
    /\ a.credit_card_discount >= 0
    /\ a.effective_price = a.original_price - a.credit_card_discount
    /\ a.effective_price <= a.original_price

\* the items the call asks for, and the offers of the catalogue for an item
RequestedItems == ItemsFound(Lower(args.grocery_query))

Candidates(item) == ItemProducts(item, MOCK_GROCERY)

HasPricedCandidate(item) ==
    \E k \in 1..Len(Candidates(item)) :
       extract_price_from_text(Candidates(item)[k].price) > 0

\* the price of the offer of the catalogue a cart item names
CartItemPrices(c) ==
    {extract_price_from_text(MOCK_GROCERY[pl][k].price) :
        <<pl, k>> \in {x \in {"blinkit", "zepto"} \X (1..4) :
                         /\ x[2] <= Len(MOCK_GROCERY[x[1]])
                         /\ MOCK_GROCERY[x[1]][x[2]].product_title = c.product_name}}

\* C7: with a non-empty card list, every analyzed offer of the product and
\* of the grocery analysis has discount >= 0 and
\* effective_price = original_price - discount <= original_price.
C7_DiscountNeverRaisesPrice ==
    /\ (ProductReturned /\ args.user_credit_cards # <<>>) =>
          \A i \in 1..Len(ret.analyzed_products) :
             DiscountInRange(ret.analyzed_products[i])
    /\ (GroceryReturned /\ args.user_credit_cards # <<>>) =>
          /\ \A i \in 1..Len(ret.products) : DiscountInRange(ret.products[i])
          /\ \A g \in 1..Len(ret.grocery_items) :
                \A i \in 1..Len(ret.grocery_items[g].product_options) :
                   DiscountInRange(ret.grocery_items[g].product_options[i])

\* a grocery offer with a positive discount, and one whose price is 0
C7_Witness ==
    /\ GroceryReturned
    /\ args.user_credit_cards # <<>>
    /\ \E i \in 1..Len(ret.products) :
          /\ ret.products[i].credit_card_discount > 0
          /\ ret.products[i].effective_price < ret.products[i].original_price
    /\ \E i \in 1..Len(ret.products) : ret.products[i].original_price = 0

ItemsOf(c) ==
    {k \in 1..Len(RequestedItems) :
        \E n \in 1..Len(Candidates(RequestedItems[k])) :
           Candidates(RequestedItems[k])[n].product_title = c.product_name}

\* C11: the cart holds at most one cart item per requested item, and the
\* cart items are in the order of the requested items, whatever their
\* prices.
C11_CartInRequestOrder ==
    GroceryReturned =>
        /\ Len(ret.cart) <= Len(RequestedItems)
        /\ \A i \in 1..Len(ret.cart) : ItemsOf(ret.cart[i]) # {}
        /\ \A i, j \in 1..Len(ret.cart) :
              i < j => \A m \in ItemsOf(ret.cart[i]) :
                          \A n \in ItemsOf(ret.cart[j]) : m < n

\* two cart items, the first one dearer than the second
C11_Witness ==
    /\ GroceryReturned
    /\ Len(ret.cart) = 2
    /\ ret.cart[1].total_quantity_price > ret.cart[2].total_quantity_price

RECURSIVE SumSavings(_)
\* the sum of the savings of the items of a cart
SumSavings(cart) ==
    IF cart = <<>> THEN 0 ELSE cart[1].savings + SumSavings(Tail(cart))

\* C12: total_savings is the sum of the savings of the cart items, and 0
\* when the cart is empty.
C12_TotalSavingsIsSum ==
    GroceryReturned =>
        /\ ret.total_savings = SumSavings(ret.cart)
        /\ ret.cart = <<>> => ret.total_savings = 0

\* a cart of two items with a saving on each
C12_Witness ==
    /\ GroceryReturned
    /\ Len(ret.cart) = 2
    /\ ret.cart[1].savings > 0
    /\ ret.cart[2].savings > 0
    /\ ret.total_savings = ret.cart[1].savings + ret.cart[2].savings

\* the grocery discount of a card on a price
GroceryDiscount(price, card) ==
    calculate_credit_card_benefits(price, card, "grocery").cashback_earned

\* C13: with several cards supplied, every analyzed grocery offer and every
\* cart item carries the discount of the card that maximizes the grocery
\* discount over all supplied cards.
C13_GroceryCardMaximal ==
    (GroceryReturned /\ Len(args.user_credit_cards) > 1) =>
        /\ \A i \in 1..Len(ret.products) :
              \A c \in 1..Len(args.user_credit_cards) :
                 ret.products[i].credit_card_discount
                   >= GroceryDiscount(ret.products[i].original_price,
                                      args.user_credit_cards[c])
        /\ \A i \in 1..Len(ret.cart) :
              \E k \in 1..Len(ret.products) :
                 /\ ret.products[k].product_title = ret.cart[i].product_name
                 /\ ret.cart[i].savings = ret.products[k].credit_card_discount
                 /\ \A c \in 1..Len(args.user_credit_cards) :
                       ret.cart[i].savings
                         >= GroceryDiscount(ret.products[k].original_price,
                                            args.user_credit_cards[c])

(***************************************************************************)
(* Properties of the product path of _execute_direct_tools.                *)
(***************************************************************************)
DirectReturned == pc = "returned" /\ call = "_execute_direct_tools"

\* the offers the product path of the call scrapes
ScrapedOffers ==
    scrape_products_tool(
        Get(Get(args.intent_result, "extracted_params", EmptyDict),
            "product_name", args.query), 5).products

\* the effective price of a returned product: that of the analysis, or the
\* price of the listing when no card discount was applied
EffectivePriceOf(product) ==
    IF "effective_price" \in DOMAIN product THEN product.effective_price
    ELSE extract_price_from_text(Get(ListingInfo(product), "price_str", RupeeZero))

\* C6: in the product path, best_deal is none exactly when there are no
\* offers, and no returned product has a lower effective price than
\* best_deal, with and without a credit card.
C6_BestDealIsCheapest ==
    (DirectReturned /\ args.domain = "product" /\ "error" \notin DOMAIN ret) =>
        /\ IsNone(ret.best_deal) <=> ScrapedOffers = <<>>
        /\ ~IsNone(ret.best_deal) =>
              \A i \in 1..Len(ret.products) :
                 EffectivePriceOf(ret.best_deal) <= EffectivePriceOf(ret.products[i])

(***************************************************************************)
(* Properties of classify_query_intent_tool and route_query_to_agent.      *)
(***************************************************************************)
ClassifierReturned == pc = "returned" /\ call = "classify_query_intent_tool"

RouterReturned == pc = "returned" /\ call = "route_query_to_agent"

\* the intent and the confidence the claim gives a lower-cased query
ExpectedIntent(query_lower) ==
    IF AnyIn(ProductIntentKeywords, query_lower) THEN <<"product_search", 80>>
    ELSE IF AnyIn(FlightIntentKeywords, query_lower) THEN <<"flight_search", 80>>
    ELSE IF AnyIn(GroceryIntentKeywords, query_lower) THEN <<"grocery_search", 80>>
    ELSE <<"general_question", 30>>

CitiesIn(query_lower) ==
    {i \in 1..Len(airport_mappings) : Contains(query_lower, airport_mappings[i].city)}

CodesIn(query_lower) == {airport_mappings[i].code : i \in CitiesIn(query_lower)}

\* the position in the query at which a code is first mentioned
FirstMention(query_lower, code) ==
    CHOOSE p \in 1..Len(query_lower) :
       /\ \E i \in CitiesIn(query_lower) :
             airport_mappings[i].code = code
             /\ Index(query_lower, airport_mappings[i].city) = p
       /\ \A i \in CitiesIn(query_lower) :
             airport_mappings[i].code = code
             => Index(query_lower, airport_mappings[i].city) >= p

\* C15: for a flight_search query that mentions two distinct cities of the
\* table, departure is the code of the city that appears first in the query
\* and arrival the code of the city that appears second.
C15_AirportsInAppearanceOrder ==
    (/\ ClassifierReturned
     /\ args.user_query # NotAString
     /\ ret.intent = "flight_search"
     /\ Cardinality(CodesIn(Lower(args.user_query))) = 2) =>
        \E a, b \in CodesIn(Lower(args.user_query)) :
           /\ FirstMention(Lower(args.user_query), a)
                < FirstMention(Lower(args.user_query), b)
           /\ ret.extracted_params = [departure |-> a, arrival |-> b]

\* the domain of a domain intent
DomainOf(intent) ==
    CASE intent = "product_search" -> "product"
      [] intent = "grocery_search" -> "grocery"
      [] intent = "flight_search" -> "flight"

DomainIntents == {"product_search", "grocery_search", "flight_search"}

\* the router decides by the intent: a domain intent with confidence > 0.6
Decided(intent_result) ==
    /\ PipelineIntent(intent_result) \in DomainIntents
    /\ PipelineConfidence(intent_result) > 60

\* C16: for a domain intent with confidence above 0.6 the router returns the
\* domain of the intent; the domain agrees with the intent the classifier
\* returns for the same query.
C16_RouterFollowsIntent ==
    (RouterReturned /\ Decided(args.intent_result)) =>
        ret = DomainOf(PipelineIntent(args.intent_result))

\* the domain the claim gives a query in the fallback
FallbackDomain(query_lower) ==
    IF AnyIn(GroceryIntentKeywords, query_lower) THEN "grocery"
    ELSE IF AnyIn(FlightIntentKeywords, query_lower) THEN "flight"
    ELSE "product"

\* C17: in the fallback (no domain intent, or confidence <= 0.6) the router
\* tests the grocery, then the flight, then the product keywords of the
\* classifier on the query, and routes a query without keyword to product.
C17_FallbackGroceryFirst ==
    (RouterReturned /\ ~Decided(args.intent_result)) =>
        /\ ret \in {"product", "grocery", "flight"}
        /\ ret = FallbackDomain(Lower(args.query))

\* an intent result without intent or confidence, or with a confidence
\* outside [0, 1], or returned by the except block of the classifier
Malformed(intent_result) ==
    \/ "intent" \notin DOMAIN intent_result
    \/ "confidence" \notin DOMAIN intent_result
    \/ intent_result.confidence \notin 0..100
    \/ "error" \in DOMAIN intent_result

\* C18: a malformed intent result, and the result of a classifier that
\* failed, reaches the pipeline as general_question with confidence 0.5,
\* and the confidence the pipeline acts on is within [0, 1].
C18_MalformedCoerced ==
    ClassifierReturned =>
        /\ PipelineConfidence(ret) \in 0..100
        /\ Malformed(ret) =>
              /\ PipelineIntent(ret) = "general_question"
              /\ PipelineConfidence(ret) = 50

(***************************************************************************)
(* Properties of ProductAgent.process_query.                               *)
(***************************************************************************)
AgentCalled == call = "ProductAgent.process_query"

\* the language model is unavailable, failed, never returned, or returned
\* something that is not a JSON list of analyses
OracleUnusable ==
    \/ ~Truthy(args.gemini_api_key) /\ pc # "called"
    \/ oracle.kind \in {"exception", "no_return", "not_json", "json_object"}
    \/ oracle.kind = "json_numbers"

\* C19: when the call of the language model fails, is unavailable, never
\* returns or returns malformed output, the query of the agent completes
\* with the fallback analysis, one entry per candidate offer; it does not
\* block, raise or return an empty result.
C19_OracleFailureFallsBack ==
    (AgentCalled /\ OracleUnusable) =>
        /\ pc = "returned"
        /\ "error" \notin DOMAIN ret
        /\ ret.products = _fallback_analysis(SampleProductData(args.query),
                                             args.credit_card)
        /\ Len(ret.products) = Len(SampleProductData(args.query))

(***************************************************************************)
(* Properties of _format_response.                                         *)
(***************************************************************************)
FormatReturned == pc = "returned" /\ call = "_format_response"

\* the value of a data key of a bundle is empty: an empty list, or savings
\* of 0
EmptyValue(bundle, key) ==
    IF key = "total_savings" THEN bundle[key] = 0 ELSE bundle[key] = <<>>

\* a bundle with no offers, an empty cart and no best offer
EmptyBundle(bundle) ==
    /\ \A key \in DOMAIN bundle \cap DataKeys : EmptyValue(bundle, key)
    /\ ~TruthyDict(bundle, "best_deal")
    /\ ~TruthyDict(bundle, "best_option")
    /\ ~TruthyText(bundle, "error")

\* C20: the response to an empty bundle has status "success", no data and
\* no actions but the suggestions of the next steps of the bundle; data
\* holds a key only when the value of the key in the bundle is not empty.
C20_EmptyBundleNoData ==
    FormatReturned =>
        /\ EmptyBundle(args.agent_response) =>
              /\ ret.status = "success"
              /\ IsNone(ret.data)
              /\ ret.actions
                   = OptionalList(SuggestionActions(Get(args.agent_response,
                                                        "next_steps", <<>>)))
        /\ ~IsNone(ret.data) =>
              \A key \in DOMAIN ret.data :
                 /\ key \in DOMAIN args.agent_response
                 /\ ~EmptyValue(args.agent_response, key)

\* C21: the actions are a purchase action with best_deal if there is one, a
\* book action with best_option if there is one, then one suggestion per
\* next step in the order of the bundle, and nothing else; without any of
\* the three there are no actions.
C21_ActionsFromBundle ==
    FormatReturned =>
        LET bundle == args.agent_response
            next_steps == Get(bundle, "next_steps", <<>>)
            deal == IF TruthyDict(bundle, "best_deal") THEN 1 ELSE 0
            option == IF TruthyDict(bundle, "best_option") THEN 1 ELSE 0
        IN  IF deal + option + Len(next_steps) = 0 THEN IsNone(ret.actions)
            ELSE /\ ~IsNone(ret.actions)
                 /\ Len(ret.actions.items) = deal + option + Len(next_steps)
                 /\ deal = 1 =>
                       ret.actions.items[1]
                         = [type |-> "purchase",
                            description |-> "Purchase recommended product",
                            data |-> bundle.best_deal]
                 /\ option = 1 =>
                       ret.actions.items[deal + 1]
                         = [type |-> "book",
                            description |-> "Book recommended flight",
                            data |-> bundle.best_option]
                 /\ \A k \in 1..Len(next_steps) :
                       ret.actions.items[deal + option + k]
                         = [type |-> "suggestion", description |-> next_steps[k]]

\* a purchase action, a book action and two different suggestions
C21_Witness ==
    /\ FormatReturned
    /\ ~IsNone(ret.actions)
    /\ Len(ret.actions.items) = 4
    /\ ret.actions.items[1].type = "purchase"
    /\ ret.actions.items[2].type = "book"
    /\ ret.actions.items[3].description # ret.actions.items[4].description

\* C22: two calls of _format_response with the same conversation id,
\* bundle, intent, domain and query give the same response in every field.
C22_FormatIdempotent ==
    (call = "_format_response" /\ pc = "returned again") => ret = prev

(***************************************************************************)
(* Properties of extract_price_from_text and of the rate of a card.        *)
(***************************************************************************)
ExtractReturned == pc = "returned" /\ call = "extract_price_from_text"

\* a currency marker (the rupee sign, Rs, Rs. or INR) ends at index j of t
MarkerEndsAt(t, j) ==
    \/ At(t, j) = "RUPEE"
    \/ At(t, j - 1) = "R" /\ At(t, j) = "s"
    \/ At(t, j - 2) = "R" /\ At(t, j - 1) = "s" /\ At(t, j) = "."
    \/ At(t, j - 2) = "I" /\ At(t, j - 1) = "N" /\ At(t, j) = "R"

\* the indices at which a numeral adjacent to a currency marker starts: the
\* marker, white space at most, then the numeral, or the numeral, white
\* space at most, then the rupee sign
AnchoredNumerals(t) ==
    {i \in 1..Len(t) :
        /\ t[i] \in Digits
        /\ \/ \E j \in 1..(i - 1) :
                 MarkerEndsAt(t, j) /\ \A k \in (j + 1)..(i - 1) : t[k] = " "
           \/ /\ At(t, i - 1) \notin Digits
              /\ \E j \in (NumEnd(t, i) + 1)..Len(t) :
                    t[j] = "RUPEE" /\ \A k \in (NumEnd(t, i) + 1)..(j - 1) : t[k] = " "}

\* the value of the numeral that starts at index i, the commas removed
NumeralValue(t, i) == FloatOf(SubSeq(t, i, NumEnd(t, i)))

\* C23: extract_price_from_text returns 0 for the empty text, for a text
\* without numeral and for a text without numeral next to a currency
\* marker; for a text with such a numeral it returns the value of one, the
\* grouping commas removed.
C23_OnlyAnchoredPrices ==
    ExtractReturned =>
        /\ AnchoredNumerals(args.text) = {} => ret = 0
        /\ AnchoredNumerals(args.text) # {} =>
              \E i \in AnchoredNumerals(args.text) : ret = NumeralValue(args.text, i)
        /\ args.text = Price61499 => ret = 61499 * Scale
        /\ args.text = PriceRs500 => ret = 500 * Scale

\* a numeral without marker before a price with grouping commas
C23_Witness ==
    /\ ExtractReturned
    /\ args.text = TInr
    /\ ret = 1299 * Scale + Scale \div 2

\* the rate the table gives a card for a category: that of the category,
\* or the general rate of the card
TableRate(card_name, category) ==
    LET key == CASE category = "grocery" -> "grocery_rate"
                 [] category = "online" -> "online_rate"
                 [] OTHER -> "cashback_rate"
    IN  IF key \in DOMAIN CREDIT_CARD_BENEFITS[card_name]
        THEN CREDIT_CARD_BENEFITS[card_name][key]
        ELSE CREDIT_CARD_BENEFITS[card_name].cashback_rate

\* amount times a rate in whole percent, the product kept within 32 bits
HundredthsOf(amount, rate) ==
    (amount \div 100) * rate + ((amount % 100) * rate) \div 100

\* C24: for a card of the table the rate is that of the category, or the
\* general rate of the card for a category without rate; the discount is
\* the amount times the rate, and the rate depends on card and category only.
C24_RateOfCardAndCategory ==
    (BenefitsReturned /\ Known(args.card_name)) =>
        /\ ret.effective_cashback_rate = TableRate(args.card_name, args.category)
        /\ ret.cashback_earned
             = HundredthsOf(args.price, TableRate(args.card_name, args.category))

\* a category without rate of its own gets the general rate, which differs
\* from the grocery rate of the card
C24_Witness ==
    /\ BenefitsReturned
    /\ Known(args.card_name)
    /\ args.category = "travel"
    /\ args.price > 0
    /\ ret.effective_cashback_rate = CREDIT_CARD_BENEFITS[args.card_name].cashback_rate
    /\ ret.effective_cashback_rate # CREDIT_CARD_BENEFITS[args.card_name].grocery_rate
    /\ ret.cashback_earned > 0

(***************************************************************************)
(* The cart item of a requested grocery item.                              *)
(***************************************************************************)
\* the requested items with a candidate offer, by position
ServedItems == {k \in 1..Len(RequestedItems) : Candidates(RequestedItems[k]) # <<>>}

\* the place in the cart of the k-th requested item
CartPlace(k) == Cardinality({j \in ServedItems : j <= k})

\* the candidates of the k-th requested item, Blinkit's before Zepto's, each
\* with its effective price
CandidateOptions(k) ==
    ProductOptions(Candidates(RequestedItems[k]), args.user_credit_cards)

\* the first candidate of minimal effective price
FirstCheapest(opts) ==
    CHOOSE n \in 1..Len(opts) :
       /\ \A m \in 1..Len(opts) : opts[n].effective_price <= opts[m].effective_price
       /\ \A m \in 1..(n - 1) : opts[m].effective_price > opts[n].effective_price

CheapestCandidate(k) == CandidateOptions(k)[FirstCheapest(CandidateOptions(k))]

\* C28: the cart item of a requested item with a candidate is the candidate
\* of minimal effective price among the item's candidates of both platforms,
\* the first in input order (Blinkit before Zepto) among equal prices.
C28_CartItemIsFirstCheapest ==
    GroceryReturned =>
        /\ Len(ret.cart) = Cardinality(ServedItems)
        /\ \A k \in ServedItems :
              /\ ret.cart[CartPlace(k)].product_name = CheapestCandidate(k).product_title
              /\ ret.cart[CartPlace(k)].platform = CheapestCandidate(k).platform
              /\ ret.cart[CartPlace(k)].total_quantity_price
                   = CheapestCandidate(k).effective_price

\* a Zepto candidate ties with the Blinkit candidate chosen, and an item
\* whose first candidate is not the cheapest
C28_Witness ==
    /\ GroceryReturned
    /\ \E k \in ServedItems :
          /\ ret.cart[CartPlace(k)].platform = "Blinkit"
          /\ \E m \in 1..Len(CandidateOptions(k)) :
                /\ CandidateOptions(k)[m].platform = "Zepto"
                /\ CandidateOptions(k)[m].effective_price
                     = ret.cart[CartPlace(k)].total_quantity_price
    /\ \E k \in ServedItems : FirstCheapest(CandidateOptions(k)) > 1

(***************************************************************************)
(* Properties of process_conversation.                                     *)
(***************************************************************************)
Calls == DOMAIN reqs

\* the steps a call has taken
StepsOf(i) == {reqs[i].trace[k] : k \in 1..Len(reqs[i].trace)}

Returned(i) == reqs[i].pc = "done"

\* the response of the i-th call if the call ran alone: with the registry
\* it found, with what its runner did, at the time of its response
ResponseAlone(i) ==
    process_conversation(args.requests[i], reqs[i].conversation_id, reqs[i].seen,
                         reqs[i].outcome, MOCK_GROCERY_SHIPPED,
                         reqs[i].response.timestamp).response

SameAsAlone == \A i \in Calls : Returned(i) => reqs[i].response = ResponseAlone(i)

NoRunner(i) == "route" \in StepsOf(i) /\ reqs[i].domain \notin reqs[i].seen

\* the response built from the result of the direct tools of the domain
DirectResponse(i) ==
    _format_response(reqs[i].conversation_id,
                     execute_direct_tools(reqs[i].domain, args.requests[i].query,
                                          args.requests[i].credit_card,
                                          reqs[i].intent_result, MOCK_GROCERY).ret,
                     PipelineIntent(reqs[i].intent_result), reqs[i].domain,
                     reqs[i].response.timestamp)

\* C26: a call that finds no runner for the routed domain is served by the
\* direct tools and returns their result, not an error response.
C26_NoRunnerServedDirectly ==
    \A i \in Calls :
       (Returned(i) /\ NoRunner(i)) =>
          /\ "direct" \in StepsOf(i)
          /\ reqs[i].response.status # "error"
          /\ reqs[i].response = DirectResponse(i)

IsPrefix(s, t) == Len(s) <= Len(t) /\ s = SubSeq(t, 1, Len(s))

\* the steps of a call whose runner finishes, and whose runner raises
StepsWithAgent == <<"classify", "route", "agent", "format">>

StepsWithFallback == <<"classify", "route", "agent raised", "direct", "format">>

Running == {"start", "classified", "agent", "direct", "format"}

\* the response of a call that returned
ResponseWellFormed(i) ==
    /\ reqs[i].response.status \in {"success", "needs_clarification", "error"}
    /\ Truthy(args.requests[i].session_id) =>
          reqs[i].response.conversation_id = args.requests[i].session_id
    /\ reqs[i].response.status = "error" <=> Truthy(reqs[i].response.error)

OneResponse ==
    \A i \in Calls :
       /\ reqs[i].pc \in Running \cup {"done"}
       /\ reqs[i].pc \in Running => reqs[i].response = NoDict
       /\ Returned(i) => ResponseWellFormed(i)

\* C29: a call of process_conversation does not raise and does not stop at
\* a failure of a step; it returns one response, with status success,
\* needs_clarification or error, with the session id of the request as
\* conversation id when the request has one, and with the error field set
\* exactly when the status is error.
C29_AlwaysOneResponse ==
    /\ []OneResponse
    /\ [][\A i \in Calls : Returned(i) => reqs'[i] = reqs[i]]_vars

\* a call with a session id whose runner answered with JSON that is not a
\* dict: formatting failed and the call returned the error response
C29_Witness ==
    \E i \in Calls :
       /\ Returned(i)
       /\ reqs[i].outcome.kind = "json"
       /\ ~IsDict(reqs[i].agent_response)
       /\ reqs[i].response.status = "error"
       /\ reqs[i].response.conversation_id = "session-1"
       /\ Truthy(reqs[i].response.error)

\* C30: a call returns needs_clarification only for an intent result with
\* missing parameters and a confidence above 0.7, and then it has neither
\* routed nor run an agent or a tool; the keyword classifier returns no
\* missing parameters, so no call returns needs_clarification.
C30_ClarificationOnlyWhenMissing ==
    \A i \in Calls :
       /\ (Returned(i) /\ reqs[i].response.status = "needs_clarification") =>
             /\ Get(reqs[i].intent_result, "missing_params", <<>>) # <<>>
             /\ PipelineConfidence(reqs[i].intent_result) > 70
             /\ reqs[i].trace = <<"classify">>
       /\ reqs[i].pc # "start" =>
             /\ Get(reqs[i].intent_result, "missing_params", <<>>) = <<>>
             /\ Returned(i) => reqs[i].response.status # "needs_clarification"

\* the classifier was sure of the intent and the call went on to route and
\* to run the agent
C30_Witness ==
    \E i \in Calls :
       /\ Returned(i)
       /\ PipelineConfidence(reqs[i].intent_result) > 70
       /\ reqs[i].intent_result.missing_params = <<>>
       /\ reqs[i].trace = StepsWithAgent
       /\ reqs[i].response.status = "success"

=============================================================================
